---- MODULE Spec2Model ----
(***************************************************************************)
(* Model of the lead-ingestion webhook of api-leads: the security          *)
(* primitives (generateSignature, verifySignature, verifyTimestamp,        *)
(* checkRateLimit), the access gate (checkCORS, checkAPIKey), the payload  *)
(* schema and the POST / OPTIONS handlers.                                 *)
(*                                                                         *)
(* Strings are sequences of one-character strings, so that substring,     *)
(* split, hex decoding and parseInt are computed character by character.   *)
(* An absent value (null / undefined) is the sentinel Null.                *)
(***************************************************************************)
EXTENDS Integers, Sequences, FiniteSets, TLC

VARIABLES
  env,            \* process.env: the configuration the process was started with
  now,            \* Date.now()
  requestCounts,  \* the rate limiter's Map: identifier -> {count, resetAt}
  rlParams,       \* the limit and window checkRateLimit is called with
  hist,           \* per identifier: when its window opened, the calls made in it
  reqs,           \* per slot: the request being handled and where its handler is
  leads,          \* the rows the external store holds, in insertion order
  traffic,        \* what the environment sends, and how many requests it has sent
  fcall,          \* the last direct call of a security primitive and its result
  allowedAt       \* per identifier: the times checkRateLimit allowed a call, in a logged run

vars == <<env, now, requestCounts, rlParams, hist, reqs, leads, traffic, fcall, allowedAt>>

(***************************************************************************)
(* Bounds of the model.                                                    *)
(***************************************************************************)
\* bytes of the modelled message-authentication code
MacLen == 2
\* largest limit handed to checkRateLimit when it is exercised on its own
MaxLimit == 3
\* requests the environment sends when it sends them one at a time
MaxRequests == 2
\* rows the external store accepts before it only answers with errors
MaxLeads == 2
\* requests handled at the same time
NumSlots == 2
\* calls beyond the limit made on checkRateLimit within one window
MaxDenied == 2
\* Date.now() when the process starts
Epoch == 1000000

(***************************************************************************)
(* Strings.                                                                *)
(***************************************************************************)
Null == <<"<null>">>

\* JavaScript truthiness of a string-or-null value
Truthy(s) == s # Null /\ Len(s) > 0

\* a || b on string-or-null values
OrElse(a, b) == IF Truthy(a) THEN a ELSE b

\* the printable ASCII characters of code 32 to 95, in order
PrintableLow ==
  << " ", "!", "\"", "#", "$", "%", "&", "'", "(", ")", "*", "+", ",", "-", ".", "/",
     "0", "1", "2", "3", "4", "5", "6", "7", "8", "9", ":", ";", "<", "=", ">", "?",
     "@", "A", "B", "C", "D", "E", "F", "G", "H", "I", "J", "K", "L", "M", "N", "O",
     "P", "Q", "R", "S", "T", "U", "V", "W", "X", "Y", "Z", "[", "\\", "]", "^", "_" >>

\* the printable ASCII characters of code 97 to 126, in order
PrintableHigh ==
  << "a", "b", "c", "d", "e", "f", "g", "h", "i", "j", "k", "l", "m", "n", "o",
     "p", "q", "r", "s", "t", "u", "v", "w", "x", "y", "z", "{", "|", "}", "~" >>

\* the character codes, tabulated
CharCodes ==
  [c \in {PrintableLow[i] : i \in 1..Len(PrintableLow)}
           \cup {PrintableHigh[i] : i \in 1..Len(PrintableHigh)} |->
     IF \E i \in 1..Len(PrintableLow) : PrintableLow[i] = c
     THEN 31 + (CHOOSE i \in 1..Len(PrintableLow) : PrintableLow[i] = c)
     ELSE 96 + (CHOOSE i \in 1..Len(PrintableHigh) : PrintableHigh[i] = c)]

\* the character code of a printable ASCII character
CharCode(c) == CharCodes[c]

Digits == <<"0", "1", "2", "3", "4", "5", "6", "7", "8", "9">>

IsDigit(c) == \E i \in 1..10 : Digits[i] = c

DigitVal(c) == (CHOOSE i \in 1..10 : Digits[i] = c) - 1

\* String.prototype.includes
Includes(s, sub) ==
  \E i \in 0..(Len(s) - Len(sub)) : SubSeq(s, i + 1, i + Len(sub)) = sub

\* Number.prototype.toString of a non-negative integer
RECURSIVE ToDecimal(_)
ToDecimal(n) ==
  IF n < 10 THEN <<Digits[n + 1]>>
  ELSE Append(ToDecimal(n \div 10), Digits[(n % 10) + 1])

RECURSIVE Pow(_, _)
Pow(b, e) == IF e = 0 THEN 1 ELSE b * Pow(b, e - 1)

(***************************************************************************)
(* The values of a complete configuration.                                 *)
(***************************************************************************)
\* "example.com,b.io"
OriginsValue ==
  <<"e", "x", "a", "m", "p", "l", "e", ".", "c", "o", "m", ",", "b", ".", "i", "o">>

\* "k1,k2"
ApiKeysValue == <<"k", "1", ",", "k", "2">>

\* "s3"
SecretValue == <<"s", "3">>

(***************************************************************************)
(* The bodies the requests carry.                                          *)
(***************************************************************************)
\* a valid lead: {"name":"Alice","email":"a@b.com"}
BodyAlice ==
  <<"{", "\"", "n", "a", "m", "e", "\"", ":", "\"", "A", "l", "i", "c", "e", "\"",
    ",", "\"", "e", "m", "a", "i", "l", "\"", ":", "\"", "a", "@", "b", ".", "c",
    "o", "m", "\"", "}">>

\* BodyAlice with one byte changed: {"name":"Alicf","email":"a@b.com"}
BodyAlicf ==
  <<"{", "\"", "n", "a", "m", "e", "\"", ":", "\"", "A", "l", "i", "c", "f", "\"",
    ",", "\"", "e", "m", "a", "i", "l", "\"", ":", "\"", "a", "@", "b", ".", "c",
    "o", "m", "\"", "}">>

\* a valid lead with notes, message, source and timestamp: {"name":"Bob","phone":"600111222","notes":"n","message":"m","source":"web","timestamp":5}
BodyBob ==
  <<"{", "\"", "n", "a", "m", "e", "\"", ":", "\"", "B", "o", "b", "\"", ",", "\"",
    "p", "h", "o", "n", "e", "\"", ":", "\"", "6", "0", "0", "1", "1", "1", "2", "2",
    "2", "\"", ",", "\"", "n", "o", "t", "e", "s", "\"", ":", "\"", "n", "\"", ",",
    "\"", "m", "e", "s", "s", "a", "g", "e", "\"", ":", "\"", "m", "\"", ",", "\"",
    "s", "o", "u", "r", "c", "e", "\"", ":", "\"", "w", "e", "b", "\"", ",", "\"",
    "t", "i", "m", "e", "s", "t", "a", "m", "p", "\"", ":", "5", "}">>

\* a lead without a contact channel: {"name":"Al"}
BodyAl ==
  <<"{", "\"", "n", "a", "m", "e", "\"", ":", "\"", "A", "l", "\"", "}">>

\* malformed JSON: {"name":"Al"
BodyCut ==
  <<"{", "\"", "n", "a", "m", "e", "\"", ":", "\"", "A", "l", "\"">>

\* JSON that is no object: 5
BodyNumber ==
  <<"5">>

\* a valid lead with an empty source and a priority of its own: {"name":"Al","phone":"600111222","source":"","priority":"alta"}
BodyPlain ==
  <<"{", "\"", "n", "a", "m", "e", "\"", ":", "\"", "A", "l", "\"", ",", "\"", "p",
    "h", "o", "n", "e", "\"", ":", "\"", "6", "0", "0", "1", "1", "1", "2", "2", "2",
    "\"", ",", "\"", "s", "o", "u", "r", "c", "e", "\"", ":", "\"", "\"", ",", "\"",
    "p", "r", "i", "o", "r", "i", "t", "y", "\"", ":", "\"", "a", "l", "t", "a",
    "\"", "}">>

RequestBodies ==
  {<<>>, BodyAlice, BodyAlicf, BodyBob, BodyAl, BodyCut, BodyNumber, BodyPlain}

(***************************************************************************)
(* Values a JavaScript function produces: a returned value or a thrown     *)
(* exception; a number or NaN.                                             *)
(***************************************************************************)
Ret(v) == [threw |-> FALSE, value |-> v]

Threw == [threw |-> TRUE, value |-> <<>>]

Num(v) == [nan |-> FALSE, val |-> v]

NaN == [nan |-> TRUE, val |-> 0]

Abs(x) == IF x < 0 THEN -x ELSE x

(***************************************************************************)
(* Hex encoding and decoding (Buffer, digest('hex')).                      *)
(***************************************************************************)
HexChars ==
  <<"0", "1", "2", "3", "4", "5", "6", "7", "8", "9", "a", "b", "c", "d", "e", "f">>

UpperHex == <<"A", "B", "C", "D", "E", "F">>

\* the value of a hex digit of either case, -1 for any other character
HexVal(c) ==
  IF \E i \in 1..16 : HexChars[i] = c THEN (CHOOSE i \in 1..16 : HexChars[i] = c) - 1
  ELSE IF \E i \in 1..6 : UpperHex[i] = c THEN 9 + (CHOOSE i \in 1..6 : UpperHex[i] = c)
  ELSE -1

\* digest('hex'): two lower-case hex digits per byte
RECURSIVE HexEncode(_)
HexEncode(bytes) ==
  IF bytes = <<>> THEN <<>>
  ELSE <<HexChars[(Head(bytes) \div 16) + 1], HexChars[(Head(bytes) % 16) + 1]>>
       \o HexEncode(Tail(bytes))

\* Buffer.from(str, 'hex'): decodes whole pairs of hex digits and stops at the
\* first pair that holds a character that is no hex digit; a trailing single
\* character is dropped
RECURSIVE HexDecode(_)
HexDecode(str) ==
  IF Len(str) < 2 THEN <<>>
  ELSE IF HexVal(str[1]) < 0 \/ HexVal(str[2]) < 0 THEN <<>>
  ELSE <<16 * HexVal(str[1]) + HexVal(str[2])>> \o HexDecode(SubSeq(str, 3, Len(str)))

\* Buffer.from(value, 'hex'): a TypeError when the value is no string
BufferFromHex(str) == IF str = Null THEN Threw ELSE Ret(HexDecode(str))

(***************************************************************************)
(* The keyed message-authentication code.  createHmac('sha256', key) is    *)
(* library code; it is modelled by a keyed polynomial hash of MacLen bytes *)
(* over the characters of key and payload.  The multiplier is odd, so two  *)
(* payloads of one length that differ in one character have different     *)
(* codes, as a MAC must.                                                   *)
(***************************************************************************)
MacModulus == Pow(256, MacLen)

\* a * b modulo MacModulus, by doubling, so that no product leaves the
\* range of the integers
RECURSIVE MulMod(_, _)
MulMod(a, b) ==
  IF b = 0 THEN 0
  ELSE IF b % 2 = 1 THEN (a + MulMod(a, b - 1)) % MacModulus
  ELSE (2 * MulMod(a, b \div 2)) % MacModulus

\* b to the power e, modulo MacModulus, by repeated squaring
RECURSIVE PowMod(_, _)
PowMod(b, e) ==
  IF e = 0 THEN 1 % MacModulus
  ELSE IF e % 2 = 1 THEN MulMod(b % MacModulus, PowMod(b, e - 1))
  ELSE MulMod(PowMod(b, e \div 2), PowMod(b, e \div 2))

\* the polynomial with multiplier 31 over the character codes of
\* str[lo..hi], modulo MacModulus, computed by halves
RECURSIVE PolyHash(_, _, _)
PolyHash(str, lo, hi) ==
  IF lo > hi THEN 0
  ELSE IF lo = hi THEN CharCode(str[lo]) % MacModulus
  ELSE (MulMod(PolyHash(str, lo, (lo + hi) \div 2), PowMod(31, hi - ((lo + hi) \div 2)))
          + PolyHash(str, ((lo + hi) \div 2) + 1, hi)) % MacModulus

\* h, then 31 * h + code for each character of str in turn, modulo MacModulus
Mix(h, str) ==
  (MulMod(h, PowMod(31, Len(str))) + PolyHash(str, 1, Len(str))) % MacModulus

RECURSIVE ToBytes(_, _)
ToBytes(h, n) ==
  IF n = 0 THEN <<>> ELSE Append(ToBytes(h \div 256, n - 1), h % 256)

HmacBytes(key, payload) == ToBytes(Mix(Mix(7, key), payload), MacLen)

\* the codes of the request bodies under the shared secret, tabulated
HmacTable == [payload \in RequestBodies |-> HmacBytes(SecretValue, payload)]

createHmac(key, payload) ==
  IF key = SecretValue /\ payload \in RequestBodies THEN HmacTable[payload]
  ELSE HmacBytes(key, payload)

(***************************************************************************)
(* lib/security: getWebhookSecret, generateSignature, verifySignature,     *)
(* verifyTimestamp, checkRateLimit.                                        *)
(***************************************************************************)
getWebhookSecret ==
  IF ~Truthy(env.WEBHOOK_SECRET) THEN Threw ELSE Ret(env.WEBHOOK_SECRET)

\* secret || getWebhookSecret()
secretKey(secret) == IF Truthy(secret) THEN Ret(secret) ELSE getWebhookSecret

generateSignature(payload, secret) ==
  IF secretKey(secret).threw THEN Threw
  ELSE Ret(HexEncode(createHmac(secretKey(secret).value, payload)))

\* the try block of verifySignature
verifySignatureTry(signature, expectedSignature) ==
  LET signatureBuffer == BufferFromHex(signature)
      expectedBuffer == BufferFromHex(expectedSignature)
  IN  IF signatureBuffer.threw \/ expectedBuffer.threw THEN FALSE
      ELSE IF Len(signatureBuffer.value) # Len(expectedBuffer.value) THEN FALSE
      ELSE signatureBuffer.value = expectedBuffer.value

\* verifySignature with a fault: the expected signature is always computed
\* under the configured secret, whatever key the caller passed
verifySignatureEnvKey(payload, signature, secret) ==
  IF secretKey(secret).threw THEN Threw
  ELSE IF generateSignature(payload, Null).threw THEN Threw
  ELSE Ret(verifySignatureTry(signature, generateSignature(payload, Null).value))

verifySignature(payload, signature, secret) ==
  IF secretKey(secret).threw THEN Threw
  ELSE Ret(verifySignatureTry(signature,
                              generateSignature(payload, secretKey(secret).value).value))

fiveMinutes == 5 * 60 * 1000

\* verifyTimestamp with a fault: only the age of the timestamp is bounded
verifyTimestampOneSided(timestamp) ==
  IF timestamp.nan THEN FALSE ELSE now - timestamp.val < fiveMinutes

\* timestamp is a number or NaN; every comparison with NaN is false
verifyTimestamp(timestamp) ==
  IF timestamp.nan THEN FALSE ELSE Abs(now - timestamp.val) < fiveMinutes

NoRecord == [count |-> 0, resetAt |-> 0]

\* Map.prototype.get, with NoRecord for undefined
MapGet(map, key) == IF key \in DOMAIN map THEN map[key] ELSE NoRecord

\* Map.prototype.set
MapSet(map, key, value) ==
  [k \in (DOMAIN map) \cup {key} |-> IF k = key THEN value ELSE map[k]]

\* checkRateLimit with a fault: the window is over as soon as resetAt is reached
checkRateLimitEarlyReset(identifier, limit, windowMs) ==
  LET record == MapGet(requestCounts, identifier)
  IN  IF identifier \notin DOMAIN requestCounts \/ now >= record.resetAt
      THEN [result |-> TRUE,
            map |-> MapSet(requestCounts, identifier,
                           [count |-> 1, resetAt |-> now + windowMs])]
      ELSE IF record.count >= limit
      THEN [result |-> FALSE, map |-> requestCounts]
      ELSE [result |-> TRUE,
            map |-> MapSet(requestCounts, identifier,
                           [count |-> record.count + 1, resetAt |-> record.resetAt])]

\* checkRateLimit with a fault: an allowed call within the window writes back
\* the count it read
checkRateLimitLostUpdate(identifier, limit, windowMs) ==
  LET record == MapGet(requestCounts, identifier)
  IN  IF identifier \notin DOMAIN requestCounts \/ now > record.resetAt
      THEN [result |-> TRUE,
            map |-> MapSet(requestCounts, identifier,
                           [count |-> 1, resetAt |-> now + windowMs])]
      ELSE IF record.count >= limit
      THEN [result |-> FALSE, map |-> requestCounts]
      ELSE [result |-> TRUE,
            map |-> MapSet(requestCounts, identifier,
                           [count |-> record.count, resetAt |-> record.resetAt])]

\* checkRateLimit with a fault: a call is denied only once the count exceeds
\* the limit
checkRateLimitOffByOne(identifier, limit, windowMs) ==
  LET record == MapGet(requestCounts, identifier)
  IN  IF identifier \notin DOMAIN requestCounts \/ now > record.resetAt
      THEN [result |-> TRUE,
            map |-> MapSet(requestCounts, identifier,
                           [count |-> 1, resetAt |-> now + windowMs])]
      ELSE IF record.count > limit
      THEN [result |-> FALSE, map |-> requestCounts]
      ELSE [result |-> TRUE,
            map |-> MapSet(requestCounts, identifier,
                           [count |-> record.count + 1, resetAt |-> record.resetAt])]

\* checkRateLimit with a fault: opening a window drops the entries whose
\* window is over
checkRateLimitPrunes(identifier, limit, windowMs) ==
  LET record == MapGet(requestCounts, identifier)
      live == {k \in DOMAIN requestCounts : now <= requestCounts[k].resetAt}
  IN  IF identifier \notin DOMAIN requestCounts \/ now > record.resetAt
      THEN [result |-> TRUE,
            map |-> MapSet([k \in live |-> requestCounts[k]], identifier,
                           [count |-> 1, resetAt |-> now + windowMs])]
      ELSE IF record.count >= limit
      THEN [result |-> FALSE, map |-> requestCounts]
      ELSE [result |-> TRUE,
            map |-> MapSet(requestCounts, identifier,
                           [count |-> record.count + 1, resetAt |-> record.resetAt])]

\* checkRateLimit with a fault: a denied call starts the window again
checkRateLimitDeniedExtends(identifier, limit, windowMs) ==
  LET record == MapGet(requestCounts, identifier)
  IN  IF identifier \notin DOMAIN requestCounts \/ now > record.resetAt
      THEN [result |-> TRUE,
            map |-> MapSet(requestCounts, identifier,
                           [count |-> 1, resetAt |-> now + windowMs])]
      ELSE IF record.count >= limit
      THEN [result |-> FALSE,
            map |-> MapSet(requestCounts, identifier,
                           [count |-> record.count, resetAt |-> now + windowMs])]
      ELSE [result |-> TRUE,
            map |-> MapSet(requestCounts, identifier,
                           [count |-> record.count + 1, resetAt |-> record.resetAt])]

\* checkRateLimit with a fault: an allowed call starts the window again
checkRateLimitRenewsWindow(identifier, limit, windowMs) ==
  LET record == MapGet(requestCounts, identifier)
  IN  IF identifier \notin DOMAIN requestCounts \/ now > record.resetAt
      THEN [result |-> TRUE,
            map |-> MapSet(requestCounts, identifier,
                           [count |-> 1, resetAt |-> now + windowMs])]
      ELSE IF record.count >= limit
      THEN [result |-> FALSE, map |-> requestCounts]
      ELSE [result |-> TRUE,
            map |-> MapSet(requestCounts, identifier,
                           [count |-> record.count + 1, resetAt |-> now + windowMs])]

\* the result of the call and the map it leaves
checkRateLimit(identifier, limit, windowMs) ==
  LET record == MapGet(requestCounts, identifier)
  IN  IF identifier \notin DOMAIN requestCounts \/ now > record.resetAt
      THEN [result |-> TRUE,
            map |-> MapSet(requestCounts, identifier,
                           [count |-> 1, resetAt |-> now + windowMs])]
      ELSE IF record.count >= limit
      THEN [result |-> FALSE, map |-> requestCounts]
      ELSE [result |-> TRUE,
            map |-> MapSet(requestCounts, identifier,
                           [count |-> record.count + 1, resetAt |-> record.resetAt])]

(***************************************************************************)
(* JSON.parse on the JSON texts the requests carry: no white space, no     *)
(* escapes; a value is a string, a number, or an object whose members are  *)
(* strings and numbers.  A parse step returns the value read and the       *)
(* position after it, or ok = FALSE for a SyntaxError.                     *)
(***************************************************************************)
Quote == "\""

JsonFail == [ok |-> FALSE, type |-> "none", str |-> <<>>, num |-> 0, next |-> 0]

\* the index of the first character at or after i that satisfies no digit test
RECURSIVE DigitsEnd(_, _)
DigitsEnd(text, i) ==
  IF i <= Len(text) /\ IsDigit(text[i]) THEN DigitsEnd(text, i + 1) ELSE i

\* the value of a string of decimal digits
RECURSIVE DecimalValue(_)
DecimalValue(str) ==
  IF str = <<>> THEN 0
  ELSE 10 * DecimalValue(SubSeq(str, 1, Len(str) - 1)) + DigitVal(str[Len(str)])

\* the index of the first quote at or after i, 0 when there is none
RECURSIVE QuoteAt(_, _)
QuoteAt(text, i) ==
  IF i > Len(text) THEN 0
  ELSE IF text[i] = Quote THEN i
  ELSE QuoteAt(text, i + 1)

\* a string literal starting at i
JsonString(text, i) ==
  IF i > Len(text) \/ text[i] # Quote \/ QuoteAt(text, i + 1) = 0 THEN JsonFail
  ELSE [ok |-> TRUE, type |-> "string",
        str |-> SubSeq(text, i + 1, QuoteAt(text, i + 1) - 1), num |-> 0,
        next |-> QuoteAt(text, i + 1) + 1]

\* a number literal starting at i (no leading zero before another digit)
JsonNumber(text, i) ==
  IF DigitsEnd(text, i) = i THEN JsonFail
  ELSE IF text[i] = "0" /\ DigitsEnd(text, i) > i + 1 THEN JsonFail
  ELSE [ok |-> TRUE, type |-> "number", str |-> <<>>,
        num |-> DecimalValue(SubSeq(text, i, DigitsEnd(text, i) - 1)),
        next |-> DigitsEnd(text, i)]

JsonScalar(text, i) ==
  IF i <= Len(text) /\ text[i] = Quote THEN JsonString(text, i) ELSE JsonNumber(text, i)

\* the members of an object from position i on, added to fields (a repeated
\* key keeps its last value); next is the position after the closing brace
RECURSIVE JsonMembers(_, _, _)
JsonMembers(text, i, fields) ==
  LET key == JsonString(text, i)
      value == JsonScalar(text, key.next + 1)
      added == [k \in (DOMAIN fields) \cup {key.str} |->
                  IF k = key.str THEN [type |-> value.type, str |-> value.str,
                                       num |-> value.num]
                  ELSE fields[k]]
  IN  IF ~key.ok \/ key.next > Len(text) \/ text[key.next] # ":" THEN
        [ok |-> FALSE, fields |-> << >>, next |-> 0]
      ELSE IF ~value.ok \/ value.next > Len(text) THEN
        [ok |-> FALSE, fields |-> << >>, next |-> 0]
      ELSE IF text[value.next] = "}" THEN
        [ok |-> TRUE, fields |-> added, next |-> value.next + 1]
      ELSE IF text[value.next] = "," THEN JsonMembers(text, value.next + 1, added)
      ELSE [ok |-> FALSE, fields |-> << >>, next |-> 0]

JsonObject(text) ==
  IF Len(text) >= 2 /\ text[2] = "}" THEN [ok |-> TRUE, fields |-> << >>, next |-> 3]
  ELSE JsonMembers(text, 2, << >>)

\* JSON.parse(text): ok = FALSE when it throws
JsonParseText(text) ==
  IF Len(text) = 0 THEN [ok |-> FALSE, type |-> "none", fields |-> << >>]
  ELSE IF text[1] = "{" THEN
    [ok |-> JsonObject(text).ok /\ JsonObject(text).next = Len(text) + 1,
     type |-> "object", fields |-> JsonObject(text).fields]
  ELSE
    [ok |-> JsonScalar(text, 1).ok /\ JsonScalar(text, 1).next = Len(text) + 1,
     type |-> JsonScalar(text, 1).type, fields |-> << >>]

\* the parses of the request bodies, tabulated
JsonTable == [text \in RequestBodies |-> JsonParseText(text)]

JsonParse(text) == IF text \in RequestBodies THEN JsonTable[text] ELSE JsonParseText(text)

(***************************************************************************)
(* parseInt(str, 10): leading blanks, an optional sign, then the longest   *)
(* run of decimal digits; NaN when there is no digit.  What follows the    *)
(* digits is ignored.                                                      *)
(***************************************************************************)
RECURSIVE BlanksEnd(_, _)
BlanksEnd(str, i) ==
  IF i <= Len(str) /\ str[i] = " " THEN BlanksEnd(str, i + 1) ELSE i

parseInt(str) ==
  LET start == BlanksEnd(str, 1)
      signed == start <= Len(str) /\ str[start] \in {"+", "-"}
      first == IF signed THEN start + 1 ELSE start
      last == DigitsEnd(str, first)
      magnitude == DecimalValue(SubSeq(str, first, last - 1))
  IN  IF last = first THEN NaN
      ELSE IF signed /\ str[start] = "-" THEN Num(-magnitude)
      ELSE Num(magnitude)

(***************************************************************************)
(* types/lead: LeadSchema.  safeParse collects the issues of every field;  *)
(* a field of the wrong type aborts the parse, so the refinement (email or *)
(* phone) runs only when every field has the right type.  Unknown keys are *)
(* stripped.                                                               *)
(***************************************************************************)
NameKey == <<"n", "a", "m", "e">>
EmailKey == <<"e", "m", "a", "i", "l">>
PhoneKey == <<"p", "h", "o", "n", "e">>
CityKey == <<"c", "i", "t", "y">>
StreetKey == <<"s", "t", "r", "e", "e", "t">>
MessageKey == <<"m", "e", "s", "s", "a", "g", "e">>
NotesKey == <<"n", "o", "t", "e", "s">>
SourceKey == <<"s", "o", "u", "r", "c", "e">>
UtmSourceKey == <<"u", "t", "m", "S", "o", "u", "r", "c", "e">>
UtmMediumKey == <<"u", "t", "m", "M", "e", "d", "i", "u", "m">>
UtmCampaignKey == <<"u", "t", "m", "C", "a", "m", "p", "a", "i", "g", "n">>
UtmTermKey == <<"u", "t", "m", "T", "e", "r", "m">>
UtmContentKey == <<"u", "t", "m", "C", "o", "n", "t", "e", "n", "t">>
TimestampKey == <<"t", "i", "m", "e", "s", "t", "a", "m", "p">>

\* the optional string fields without a further constraint
PlainKeys ==
  <<CityKey, StreetKey, MessageKey, NotesKey, SourceKey, UtmSourceKey, UtmMediumKey,
    UtmCampaignKey, UtmTermKey, UtmContentKey>>

SchemaKeys ==
  {NameKey, EmailKey, PhoneKey, TimestampKey} \cup {PlainKeys[i] : i \in 1..Len(PlainKeys)}

\* the index of the last occurrence of c in str, 0 when there is none
RECURSIVE LastIndexOf(_, _)
LastIndexOf(str, c) ==
  IF str = <<>> THEN 0
  ELSE IF str[Len(str)] = c THEN Len(str)
  ELSE LastIndexOf(SubSeq(str, 1, Len(str) - 1), c)

IsLetter(c) == CharCode(c) \in (65..90) \cup (97..122)

\* z.string().email(): one @, a local part, a dotted domain whose last
\* label is two letters or more
IsEmail(str) ==
  LET at == LastIndexOf(str, "@")
      dot == LastIndexOf(str, ".")
  IN  /\ at > 1
      /\ Cardinality({i \in 1..Len(str) : str[i] = "@"}) = 1
      /\ dot > at + 1
      /\ Len(str) - dot >= 2
      /\ \A i \in (dot + 1)..Len(str) : IsLetter(str[i])
      /\ \A i \in 1..Len(str) : str[i] # " "
      /\ str[1] # "." /\ str[at - 1] # "." /\ str[at + 1] # "."

Issue(path, message) == [path |-> path, message |-> message]

\* the issues of one field: aborted when its type is wrong
FieldIssues(fields, key) ==
  IF key \notin DOMAIN fields THEN
    IF key = NameKey THEN [aborted |-> TRUE, issues |-> <<Issue(key, "Required")>>]
    ELSE [aborted |-> FALSE, issues |-> <<>>]
  ELSE IF key = TimestampKey THEN
    IF fields[key].type = "number" THEN [aborted |-> FALSE, issues |-> <<>>]
    ELSE [aborted |-> TRUE, issues |-> <<Issue(key, "Expected number, received string")>>]
  ELSE IF fields[key].type # "string" THEN
    [aborted |-> TRUE, issues |-> <<Issue(key, "Expected string, received number")>>]
  ELSE IF key = NameKey /\ Len(fields[key].str) < 2 THEN
    [aborted |-> FALSE,
     issues |-> <<Issue(key, "El nombre debe tener al menos 2 caracteres")>>]
  ELSE IF key = EmailKey /\ ~IsEmail(fields[key].str) THEN
    [aborted |-> FALSE, issues |-> <<Issue(key, "Email invalido")>>]
  ELSE IF key = PhoneKey /\ Len(fields[key].str) < 9 THEN
    [aborted |-> FALSE, issues |-> <<Issue(key, "Telefono invalido")>>]
  ELSE [aborted |-> FALSE, issues |-> <<>>]

\* the keys in the order the schema declares them
SchemaOrder == <<NameKey, EmailKey, PhoneKey>> \o PlainKeys \o <<TimestampKey>>

RECURSIVE ObjectIssues(_, _)
ObjectIssues(fields, i) ==
  IF i > Len(SchemaOrder) THEN <<>>
  ELSE FieldIssues(fields, SchemaOrder[i]).issues \o ObjectIssues(fields, i + 1)

\* data.email || data.phone
HasContact(data) ==
  \/ (EmailKey \in DOMAIN data /\ Len(data[EmailKey].str) > 0)
  \/ (PhoneKey \in DOMAIN data /\ Len(data[PhoneKey].str) > 0)

RefineIssue == Issue(EmailKey, "Debe proporcionar al menos email o telefono")

\* LeadSchema.safeParse with a fault: the refinement is left out
SafeParseUnrefined(value) ==
  LET data == [k \in (DOMAIN value.fields) \cap SchemaKeys |-> value.fields[k]]
      issues == ObjectIssues(value.fields, 1)
  IN  IF value.type # "object" THEN
        [success |-> FALSE, data |-> << >>,
         errors |-> <<Issue(<<>>, "Expected object")>>]
      ELSE [success |-> issues = <<>>, data |-> data, errors |-> issues]

\* LeadSchema.safeParse(value)
SafeParse(value) ==
  LET data == [k \in (DOMAIN value.fields) \cap SchemaKeys |-> value.fields[k]]
      aborted == \E i \in 1..Len(SchemaOrder) :
                   FieldIssues(value.fields, SchemaOrder[i]).aborted
      issues == ObjectIssues(value.fields, 1)
                  \o (IF ~aborted /\ ~HasContact(data) THEN <<RefineIssue>> ELSE <<>>)
  IN  IF value.type # "object" THEN
        [success |-> FALSE, data |-> << >>,
         errors |-> <<Issue(<<>>, "Expected object")>>]
      ELSE [success |-> issues = <<>>, data |-> data, errors |-> issues]

\* the validations of the parsed request bodies, tabulated
SafeParseTable == [text \in RequestBodies |-> SafeParse(JsonTable[text])]

LeadSchemaSafeParse(text) ==
  IF text \in RequestBodies THEN SafeParseTable[text] ELSE SafeParse(JsonParse(text))

(***************************************************************************)
(* The access gate of the webhook route: checkCORS, checkAPIKey and        *)
(* getCORSHeaders.                                                         *)
(***************************************************************************)
\* String.prototype.split(sep) for a one-character separator
RECURSIVE Split(_, _)
Split(str, sep) ==
  IF \E i \in 1..Len(str) : str[i] = sep
  THEN LET i == CHOOSE j \in 1..Len(str) :
                  str[j] = sep /\ \A k \in 1..(j - 1) : str[k] # sep
       IN  <<SubSeq(str, 1, i - 1)>> \o Split(SubSeq(str, i + 1, Len(str)), sep)
  ELSE <<str>>

\* Array.prototype.filter(Boolean) on strings
FilterBoolean(list) == SelectSeq(list, LAMBDA str : Len(str) > 0)

ALLOWED_ORIGINS == FilterBoolean(Split(OrElse(env.ALLOWED_ORIGINS, <<>>), ","))

VALID_API_KEYS == FilterBoolean(Split(OrElse(env.API_KEYS, <<>>), ","))

\* checkCORS with a fault: the origin must equal an entry of the allow-list
checkCORSExact(origin) ==
  IF ~Truthy(origin) THEN FALSE
  ELSE \E i \in 1..Len(ALLOWED_ORIGINS) : ALLOWED_ORIGINS[i] = origin

checkCORS(origin) ==
  IF ~Truthy(origin) THEN FALSE
  ELSE \E i \in 1..Len(ALLOWED_ORIGINS) : Includes(origin, ALLOWED_ORIGINS[i])

\* checkAPIKey with a fault: the key need only contain a valid key
checkAPIKeyContains(apiKey) ==
  IF ~Truthy(apiKey) THEN FALSE
  ELSE \E i \in 1..Len(VALID_API_KEYS) : Includes(apiKey, VALID_API_KEYS[i])

checkAPIKey(apiKey) ==
  IF ~Truthy(apiKey) THEN FALSE
  ELSE \E i \in 1..Len(VALID_API_KEYS) : VALID_API_KEYS[i] = apiKey

\* the Access-Control-Allow-Origin header of getCORSHeaders
getCORSHeaders(origin) == OrElse(origin, <<"*">>)

(***************************************************************************)
(* The environment: configurations, instants and identifiers.              *)
(***************************************************************************)
FullEnv ==
  [ALLOWED_ORIGINS |-> OriginsValue, API_KEYS |-> ApiKeysValue,
   WEBHOOK_SECRET |-> SecretValue, SUPABASE |-> TRUE]

\* the configurations a process is started with: complete, or with the
\* signing secret, the store credentials or the access lists left unset
Envs ==
  { FullEnv,
    [FullEnv EXCEPT !.WEBHOOK_SECRET = Null],
    [FullEnv EXCEPT !.SUPABASE = FALSE],
    [FullEnv EXCEPT !.ALLOWED_ORIGINS = Null, !.API_KEYS = Null] }

\* the instants the clock is observed at, as offsets from Epoch: around the
\* freshness window for varied requests, around the rate limiter's window
\* otherwise
Offsets ==
  IF traffic.kind \in {"access", "content", "none"} THEN {0, 1, 300000, 360000}
  ELSE IF traffic.kind = "race" THEN {0}
  ELSE {0, 1, 60000, 60001, 120002}

Instants == {Epoch + o : o \in Offsets}

Tick ==
  /\ fcall.op = "none"
  /\ \E t \in Instants : t > now /\ now' = t
  /\ UNCHANGED <<env, requestCounts, rlParams, hist, reqs, leads, traffic, fcall, allowedAt>>

\* "1.1.1.1" and "2.2.2.2"
IpA == <<"1", ".", "1", ".", "1", ".", "1">>

IpB == <<"2", ".", "2", ".", "2", ".", "2">>

Unknown == <<"u", "n", "k", "n", "o", "w", "n">>

(***************************************************************************)
(* The rate limiter's windows as the callers see them: a call opens a     *)
(* window when it is the identifier's first, or when more than windowMs    *)
(* have passed since the call that opened the current one.                 *)
(***************************************************************************)
OpensWindow(identifier, windowMs) ==
  identifier \notin DOMAIN hist \/ now - hist[identifier].opened > windowMs

HistAfter(identifier, windowMs) ==
  MapSet(hist, identifier,
         IF OpensWindow(identifier, windowMs)
         THEN [opened |-> now, calls |-> 1]
         ELSE [opened |-> hist[identifier].opened, calls |-> hist[identifier].calls + 1])

NoCall == [op |-> "none"]

NoTraffic == [kind |-> "none", sent |-> 0]

(***************************************************************************)
(* Request slots.                                                          *)
(***************************************************************************)
Slots == 1..NumSlots

IdleReq == [pc |-> "idle"]

(***************************************************************************)
(* The security primitives called directly: verifySignature and            *)
(* verifyTimestamp on bounded inputs.                                      *)
(***************************************************************************)
\* payloads: the strings of at most two characters over a and b
Payloads ==
  {<<>>} \cup {<<c>> : c \in {"a", "b"}} \cup {<<c, d>> : c, d \in {"a", "b"}}

\* the secret argument: absent, empty, or a key
Secrets == {Null, <<>>, <<"k">>, SecretValue}

\* str with its i-th character replaced by c
Replace(str, i, c) == [str EXCEPT ![i] = c]

\* the strings that differ from str in exactly one character
OneCharMutations(str, chars) ==
  {Replace(str, i, c) : i \in 1..Len(str), c \in chars} \ {str}

\* a and b have the same length and differ in exactly one character
OneCharDiff(a, b) ==
  /\ a # Null /\ b # Null /\ Len(a) = Len(b)
  /\ Cardinality({i \in 1..Len(a) : a[i] # b[i]}) = 1

\* characters a candidate signature is built from: hex digits of both cases
\* and characters that are no hex digits
SigChars ==
  {HexChars[i] : i \in 1..16} \cup {UpperHex[i] : i \in 1..6} \cup {"g", "z", " "}

IsHexString(str) == \A i \in 1..Len(str) : HexVal(str[i]) >= 0

\* candidate signatures derived from the signature sig: sig itself, its
\* one-character mutations, sig with characters appended, its prefixes,
\* the empty string and no string at all
Candidates(sig) ==
  {sig, Null}
    \cup OneCharMutations(sig, SigChars)
    \cup {sig \o <<c>> : c \in SigChars}
    \cup {sig \o <<c, d>> : c, d \in {"0", "f", "z"}}
    \cup {SubSeq(sig, 1, n) : n \in 0..Len(sig)}

CallVerifySignature ==
  /\ fcall.op = "none"
  /\ \E P \in Payloads, K \in Secrets :
       LET generated == generateSignature(P, K)
       IN  \/ \E signature \in (IF generated.threw THEN {Null, <<>>, <<"0", "0">>}
                                ELSE Candidates(generated.value)) :
                fcall' = [op |-> "verifySignature", payload |-> P, signed |-> P,
                          secret |-> K, generated |-> generated, signature |-> signature,
                          result |-> verifySignature(P, signature, K)]
           \/ /\ ~generated.threw
              /\ \E P2 \in OneCharMutations(P, {"a", "b", "c"}) :
                   fcall' = [op |-> "verifySignature", payload |-> P2, signed |-> P,
                             secret |-> K, generated |-> generated,
                             signature |-> generated.value,
                             result |-> verifySignature(P2, generated.value, K)]
  /\ UNCHANGED <<env, now, requestCounts, rlParams, hist, reqs, leads, traffic, allowedAt>>

\* the differences now - timestamp the timestamps are drawn with
Skews == {-300001, -300000, -299999, -1, 0, 1, 299999, 300000, 300001}

CallVerifyTimestamp ==
  /\ fcall.op = "none"
  /\ \E timestamp \in {Num(now - d) : d \in Skews} \cup {NaN} :
       fcall' = [op |-> "verifyTimestamp", timestamp |-> timestamp, at |-> now,
                 result |-> verifyTimestamp(timestamp)]
  /\ UNCHANGED <<env, now, requestCounts, rlParams, hist, reqs, leads, traffic, allowedAt>>

\* the caller drops the result of the call
Return ==
  /\ fcall.op # "none"
  /\ fcall' = NoCall
  /\ UNCHANGED <<env, now, requestCounts, rlParams, hist, reqs, leads, traffic, allowedAt>>

PostLimit == 20

PostWindowMs == 60000

SecurityInit ==
  /\ env \in {e \in Envs : e.SUPABASE /\ e.ALLOWED_ORIGINS # Null}
  /\ now = Epoch
  /\ requestCounts = << >>
  /\ rlParams = [limit |-> PostLimit, windowMs |-> PostWindowMs]
  /\ hist = << >>
  /\ reqs = [s \in Slots |-> IdleReq]
  /\ leads = << >>
  /\ traffic = NoTraffic
  /\ fcall = NoCall
  /\ allowedAt = << >>

SecurityNext == CallVerifySignature \/ CallVerifyTimestamp \/ Return \/ Tick

SpecSecurity == SecurityInit /\ [][SecurityNext]_vars

\* C6: round trip. Whenever generateSignature(P, K) produced a signature,
\* verifySignature(P, that signature, K) returns true.
RoundTrip ==
  (/\ fcall.op = "verifySignature"
   /\ ~fcall.generated.threw
   /\ fcall.payload = fcall.signed
   /\ fcall.signature = fcall.generated.value)
  => (~fcall.result.threw /\ fcall.result.value = TRUE)

\* a non-empty payload signed and verified under an explicit key
RoundTripWitness ==
  /\ fcall.op = "verifySignature"
  /\ fcall.payload = <<"a", "b">> /\ fcall.signed = fcall.payload
  /\ fcall.secret = <<"k">>
  /\ ~fcall.generated.threw /\ fcall.signature = fcall.generated.value
  /\ Len(fcall.signature) = 2 * MacLen
  /\ ~fcall.result.threw /\ fcall.result.value = TRUE

\* C7: a one-byte change of the payload, or a one-character change of the
\* signature string, makes verifySignature return false.
MutationRejected ==
  (/\ fcall.op = "verifySignature"
   /\ ~fcall.generated.threw
   /\ \/ (fcall.payload = fcall.signed
            /\ OneCharDiff(fcall.signature, fcall.generated.value))
      \/ (fcall.signature = fcall.generated.value
            /\ OneCharDiff(fcall.payload, fcall.signed)))
  => (~fcall.result.threw /\ fcall.result.value = FALSE)

\* the candidate is malformed hex, decodes to another length than the MAC,
\* or is no string
Malformed(signature, correct) ==
  \/ signature = Null
  \/ ~IsHexString(signature)
  \/ Len(signature) % 2 = 1
  \/ Len(signature) = 0
  \/ (Len(signature) > Len(correct) /\ SubSeq(signature, 1, Len(correct)) = correct)
  \/ Len(HexDecode(signature)) # MacLen

\* C8: verifySignature returns false, and throws nothing, for every candidate
\* that is malformed hex, has the wrong decoded length or does not decode.
MalformedRejected ==
  (/\ fcall.op = "verifySignature"
   /\ fcall.payload = fcall.signed
   /\ IF fcall.generated.threw THEN TRUE
      ELSE Malformed(fcall.signature, fcall.generated.value))
  => (~fcall.result.threw /\ fcall.result.value = FALSE)

\* C9: verifyTimestamp(T) is true exactly when T lies strictly within five
\* minutes of now, on either side.
FreshIffWithinWindow ==
  (fcall.op = "verifyTimestamp" /\ ~fcall.timestamp.nan)
  => (fcall.result <=> (/\ fcall.at - fcall.timestamp.val < 300000
                        /\ fcall.timestamp.val - fcall.at < 300000))

\* a timestamp exactly 300000 ms in the future has been refused
FreshBoundaryWitness ==
  /\ fcall.op = "verifyTimestamp" /\ ~fcall.timestamp.nan
  /\ fcall.timestamp.val - fcall.at = 300000
  /\ fcall.result = FALSE

(***************************************************************************)
(* The webhook route: the POST and OPTIONS handlers.  A request record     *)
(* holds what the handler has read of the request so far (a header or the  *)
(* body is Unread until the handler reads it), the gates it has evaluated  *)
(* and the response it has returned.                                       *)
(***************************************************************************)
Unread == <<"<unread>">>

NoResponse ==
  [status |-> 0, error |-> "", details |-> "", violations |-> <<>>, success |-> FALSE,
   leadId |-> 0, message |-> "", acao |-> Unread]

NoLead == [name |-> Unread]

\* the insert of a request has not settled
NoOutcome == [kind |-> "none", message |-> "", id |-> 0]

NewReq(method) ==
  [pc |-> "run", method |-> method, origin |-> Unread, apiKey |-> Unread,
   xff |-> Unread, xreal |-> Unread, ip |-> Unread, bodyText |-> Unread,
   signature |-> Unread, timestamp |-> Unread, userAgent |-> Unread,
   gates |-> <<>>, rlSeq |-> 0, rlAt |-> 0, rlOpened |-> 0, readAt |-> 0,
   leadDB |-> NoLead, inserts |-> 0, settled |-> NoOutcome, response |-> NoResponse]

\* the handler has evaluated a gate: "pass", "fail", or "throw"
Evaluated(r, gate, verdict) ==
  [r EXCEPT !.gates = Append(@, [gate |-> gate, verdict |-> verdict])]

\* NextResponse.json({error}, {status, headers: corsHeaders})
Respond(r, status, error) ==
  [r EXCEPT !.pc = "done",
            !.response = [NoResponse EXCEPT !.status = status, !.error = error,
                                            !.acao = getCORSHeaders(r.origin)]]

\* NextResponse.json({error, details}, {status, headers: corsHeaders})
RespondDetails(r, status, error, details) ==
  [r EXCEPT !.pc = "done",
            !.response = [NoResponse EXCEPT !.status = status, !.error = error,
                                            !.details = details,
                                            !.acao = getCORSHeaders(r.origin)]]

\* the catch block of POST with a fault: the exception is thrown again and
\* the handler ends without a response of its own
CatchRethrows(r, message) == [r EXCEPT !.pc = "done"]

\* the catch block of POST
Catch(r, message) == RespondDetails(r, 500, "Internal server error", message)

\* "api-webhook"
ApiWebhook == <<"a", "p", "i", "-", "w", "e", "b", "h", "o", "o", "k">>

\* a string field of the validated lead, Null when it is undefined
Field(data, key) == IF key \in DOMAIN data THEN data[key].str ELSE Null

\* step 7 of POST with a fault: the origin is left out of the source
BuildLeadDBSourceLiteral(r, data, timestampNum) ==
  [name |-> Field(data, NameKey),
   email |-> Field(data, EmailKey),
   phone |-> Field(data, PhoneKey),
   city |-> Field(data, CityKey),
   street |-> Field(data, StreetKey),
   notes |-> OrElse(Field(data, MessageKey), Field(data, NotesKey)),
   status |-> "Recibido",
   priority |-> "media",
   source |-> OrElse(Field(data, SourceKey), ApiWebhook),
   utm_source |-> Field(data, UtmSourceKey),
   utm_medium |-> Field(data, UtmMediumKey),
   utm_campaign |-> Field(data, UtmCampaignKey),
   utm_term |-> Field(data, UtmTermKey),
   utm_content |-> Field(data, UtmContentKey),
   ip_address |-> r.ip,
   user_agent |-> IF Truthy(r.userAgent) THEN r.userAgent ELSE Null,
   form_timestamp |-> IF TimestampKey \in DOMAIN data /\ data[TimestampKey].num # 0
                      THEN data[TimestampKey].num ELSE timestampNum.val,
   received_at |-> now]

\* step 7 of POST: the row handed to the store
BuildLeadDB(r, data, timestampNum) ==
  [name |-> Field(data, NameKey),
   email |-> Field(data, EmailKey),
   phone |-> Field(data, PhoneKey),
   city |-> Field(data, CityKey),
   street |-> Field(data, StreetKey),
   notes |-> OrElse(Field(data, MessageKey), Field(data, NotesKey)),
   status |-> "Recibido",
   priority |-> "media",
   source |-> OrElse(Field(data, SourceKey), OrElse(r.origin, ApiWebhook)),
   utm_source |-> Field(data, UtmSourceKey),
   utm_medium |-> Field(data, UtmMediumKey),
   utm_campaign |-> Field(data, UtmCampaignKey),
   utm_term |-> Field(data, UtmTermKey),
   utm_content |-> Field(data, UtmContentKey),
   ip_address |-> r.ip,
   user_agent |-> IF Truthy(r.userAgent) THEN r.userAgent ELSE Null,
   form_timestamp |-> IF TimestampKey \in DOMAIN data /\ data[TimestampKey].num # 0
                      THEN data[TimestampKey].num ELSE timestampNum.val,
   received_at |-> now]

\* lib/supabase: getSupabaseClient throws when the store credentials are unset
getSupabaseClient == IF ~env.SUPABASE THEN Threw ELSE Ret("client")

\* steps 7 and 8 of POST up to the await: build the row, reach the client
\* through the proxy and issue the insert
Persist(r, inp, data, timestampNum) ==
  LET r1 == [r EXCEPT !.userAgent = inp.userAgent]
      r2 == [r1 EXCEPT !.leadDB = BuildLeadDB(r1, data, timestampNum)]
  IN  IF getSupabaseClient.threw THEN Catch(r2, "Missing Supabase environment variables")
      ELSE [r2 EXCEPT !.pc = "insert", !.inserts = @ + 1]

GateSchema(r, inp, timestampNum) ==
  LET validation == LeadSchemaSafeParse(r.bodyText)
  IN  IF ~validation.success
      THEN [Respond(Evaluated(r, "schema", "fail"), 400, "Validation failed")
              EXCEPT !.response.violations = validation.errors]
      ELSE Persist(Evaluated(r, "schema", "pass"), inp, validation.data, timestampNum)

GateJson(r, inp, timestampNum) ==
  IF ~JsonParse(r.bodyText).ok
  THEN Respond(Evaluated(r, "json", "fail"), 400, "Invalid JSON")
  ELSE GateSchema(Evaluated(r, "json", "pass"), inp, timestampNum)

\* the signature gate with a fault: a signature that has been accepted and
\* stored once is not accepted again
GateSignatureOnce(r, inp, timestampNum) ==
  LET verified == verifySignature(r.bodyText, r.signature, Null)
  IN  IF verified.threw
      THEN Catch(Evaluated(r, "signature", "throw"),
                 "WEBHOOK_SECRET environment variable is not set")
      ELSE IF ~verified.value \/ \E i \in 1..Len(leads) : leads[i].from.signature = r.signature
      THEN Respond(Evaluated(r, "signature", "fail"), 401, "Invalid signature")
      ELSE GateJson(Evaluated(r, "signature", "pass"), inp, timestampNum)

GateSignature(r, inp, timestampNum) ==
  LET verified == verifySignature(r.bodyText, r.signature, Null)
  IN  IF verified.threw
      THEN Catch(Evaluated(r, "signature", "throw"),
                 "WEBHOOK_SECRET environment variable is not set")
      ELSE IF ~verified.value
      THEN Respond(Evaluated(r, "signature", "fail"), 401, "Invalid signature")
      ELSE GateJson(Evaluated(r, "signature", "pass"), inp, timestampNum)

GateFreshness(r, inp) ==
  LET timestampNum == parseInt(r.timestamp)
  IN  IF ~verifyTimestamp(timestampNum)
      THEN Respond(Evaluated(r, "freshness", "fail"), 401, "Request expired")
      ELSE GateSignature(Evaluated(r, "freshness", "pass"), inp, timestampNum)

GateHeaders(r, inp) ==
  LET r1 == [r EXCEPT !.signature = inp.signature, !.timestamp = inp.timestamp]
  IN  IF ~Truthy(r1.signature) \/ ~Truthy(r1.timestamp)
      THEN Respond(Evaluated(r1, "headers", "fail"), 401, "Missing security headers")
      ELSE GateFreshness(Evaluated(r1, "headers", "pass"), inp)

\* POST from the return of req.text() to the next await or response
GateBody(r, inp) ==
  LET r1 == [r EXCEPT !.bodyText = inp.bodyText, !.readAt = now]
  IN  IF inp.textThrows THEN Catch([r EXCEPT !.readAt = now], "body read failed")
      ELSE IF ~Truthy(r1.bodyText)
      THEN Respond(Evaluated(r1, "body", "fail"), 400, "Empty body")
      ELSE GateHeaders(Evaluated(r1, "body", "pass"), inp)

\* the request, the rate limiter's map and the windows after a step
Step(r, map, h) == [req |-> r, map |-> map, hist |-> h]

\* the rate-limit gate with a fault: x-real-ip is preferred to x-forwarded-for
GateRateLimitRealIpFirst(r, inp) ==
  LET ip == OrElse(inp.xreal, OrElse(inp.xff, Unknown))
      limited == checkRateLimit(ip, PostLimit, PostWindowMs)
      h == HistAfter(ip, PostWindowMs)
      r1 == [r EXCEPT !.xff = inp.xff, !.xreal = inp.xreal,
                      !.ip = ip, !.rlSeq = h[ip].calls, !.rlAt = now,
                      !.rlOpened = h[ip].opened]
  IN  IF ~limited.result
      THEN Step(Respond(Evaluated(r1, "rateLimit", "fail"), 429, "Too many requests"),
                limited.map, h)
      ELSE Step([Evaluated(r1, "rateLimit", "pass") EXCEPT !.pc = "text"], limited.map, h)

GateRateLimit(r, inp) ==
  LET ip == OrElse(inp.xff, OrElse(inp.xreal, Unknown))
      limited == checkRateLimit(ip, PostLimit, PostWindowMs)
      h == HistAfter(ip, PostWindowMs)
      r1 == [r EXCEPT !.xff = inp.xff,
                      !.xreal = IF Truthy(inp.xff) THEN Unread ELSE inp.xreal,
                      !.ip = ip, !.rlSeq = h[ip].calls, !.rlAt = now,
                      !.rlOpened = h[ip].opened]
  IN  IF ~limited.result
      THEN Step(Respond(Evaluated(r1, "rateLimit", "fail"), 429, "Too many requests"),
                limited.map, h)
      ELSE Step([Evaluated(r1, "rateLimit", "pass") EXCEPT !.pc = "text"], limited.map, h)

\* the API-key gate with a fault: the rate limiter is consulted before the
\* key is checked
GateApiKeyAfterRateLimit(r, inp) ==
  LET r1 == [r EXCEPT !.apiKey = inp.apiKey]
      limited == GateRateLimit(r1, inp)
  IN  IF limited.req.pc = "done" THEN limited
      ELSE IF ~checkAPIKey(r1.apiKey)
      THEN Step(Respond(Evaluated(limited.req, "apiKey", "fail"), 401, "Invalid API Key"),
                limited.map, limited.hist)
      ELSE Step(Evaluated(limited.req, "apiKey", "pass"), limited.map, limited.hist)

GateApiKey(r, inp) ==
  LET r1 == [r EXCEPT !.apiKey = inp.apiKey]
  IN  IF ~checkAPIKey(r1.apiKey)
      THEN Step(Respond(Evaluated(r1, "apiKey", "fail"), 401, "Invalid API Key"),
                requestCounts, hist)
      ELSE GateRateLimit(Evaluated(r1, "apiKey", "pass"), inp)

\* the origin gate with a fault: every origin is let through
GateOriginOpen(inp) ==
  GateApiKey(Evaluated([NewReq("POST") EXCEPT !.origin = inp.origin], "origin", "pass"), inp)

\* POST with a fault: a request of a disallowed origin is counted by the rate
\* limiter before it is rejected
GateOriginCounted(inp) ==
  LET r1 == [NewReq("POST") EXCEPT !.origin = inp.origin]
      ip == OrElse(inp.xff, OrElse(inp.xreal, Unknown))
  IN  IF ~checkCORS(r1.origin)
      THEN Step(Respond(Evaluated(r1, "origin", "fail"), 403, "Origin not allowed"),
                checkRateLimit(ip, PostLimit, PostWindowMs).map, hist)
      ELSE GateApiKey(Evaluated(r1, "origin", "pass"), inp)

\* POST from its start to the first await or response
GateOrigin(inp) ==
  LET r1 == [NewReq("POST") EXCEPT !.origin = inp.origin]
  IN  IF ~checkCORS(r1.origin)
      THEN Step(Respond(Evaluated(r1, "origin", "fail"), 403, "Origin not allowed"),
                requestCounts, hist)
      ELSE GateApiKey(Evaluated(r1, "origin", "pass"), inp)

\* the end of POST with a fault: success is answered 200
SettleOk200(r, outcome, id) ==
  IF outcome.kind = "rejects" THEN Catch(r, outcome.message)
  ELSE IF outcome.kind = "error" THEN RespondDetails(r, 500, "Database error", outcome.message)
  ELSE [r EXCEPT !.pc = "done",
                 !.response = [NoResponse EXCEPT !.status = 200, !.success = TRUE,
                                                 !.leadId = id,
                                                 !.message = "Lead received successfully",
                                                 !.acao = getCORSHeaders(r.origin)]]

\* the end of POST with a fault: a store error is answered without its diagnostic
SettleHidesDiagnostic(r, outcome, id) ==
  IF outcome.kind = "rejects" THEN Catch(r, outcome.message)
  ELSE IF outcome.kind = "error" THEN Respond(r, 500, "Database error")
  ELSE [r EXCEPT !.pc = "done",
                 !.response = [NoResponse EXCEPT !.status = 201, !.success = TRUE,
                                                 !.leadId = id,
                                                 !.message = "Lead received successfully",
                                                 !.acao = getCORSHeaders(r.origin)]]

\* POST after the awaited insert has settled: outcome is "ok" with the row's
\* id, "error" with the store's diagnostic, or "rejects" when the promise rejects
Settle(r, outcome, id) ==
  IF outcome.kind = "rejects" THEN Catch(r, outcome.message)
  ELSE IF outcome.kind = "error" THEN RespondDetails(r, 500, "Database error", outcome.message)
  ELSE [r EXCEPT !.pc = "done",
                 !.response = [NoResponse EXCEPT !.status = 201, !.success = TRUE,
                                                 !.leadId = id,
                                                 !.message = "Lead received successfully",
                                                 !.acao = getCORSHeaders(r.origin)]]

\* the OPTIONS handler with a fault: the origin is checked as in POST
OptionsHandlerGated(origin) ==
  IF ~checkCORS(origin)
  THEN Respond(Evaluated([NewReq("OPTIONS") EXCEPT !.origin = origin], "origin", "fail"),
               403, "Origin not allowed")
  ELSE [NewReq("OPTIONS") EXCEPT !.origin = origin, !.pc = "done",
                                 !.response = [NoResponse EXCEPT !.status = 200,
                                                                 !.acao = getCORSHeaders(origin)]]

\* the OPTIONS handler
OptionsHandler(origin) ==
  [NewReq("OPTIONS") EXCEPT !.origin = origin, !.pc = "done",
                            !.response = [NoResponse EXCEPT !.status = 200,
                                                            !.acao = getCORSHeaders(origin)]]

(***************************************************************************)
(* The requests the environment sends: one at a time with varied access    *)
(* headers ("access") or with varied body, signature and timestamp         *)
(* ("content"); requests that overlap ("overlap"); a burst of similar       *)
(* requests ("burst"); a burst of overlapping requests of one identifier   *)
(* ("race"); or direct calls of checkRateLimit, for two identifiers        *)
(* ("direct") or for one with a log of the allowed calls ("logged").       *)
(***************************************************************************)
\* "https://app.example.com" and "https://evil.test"
OriginApp ==
  <<"h", "t", "t", "p", "s", ":", "/", "/", "a", "p", "p", ".", "e", "x", "a", "m",
    "p", "l", "e", ".", "c", "o", "m">>

OriginEvil ==
  <<"h", "t", "t", "p", "s", ":", "/", "/", "e", "v", "i", "l", ".", "t", "e", "s",
    "t">>

KeyOne == <<"k", "1">>

KeyBad == <<"k", "9">>

UserAgent == <<"u", "a">>

\* the signature a client holding the shared secret computes for a body
ClientSignature(body) == HexEncode(createHmac(SecretValue, body))

\* str with its hex letters in upper case
UpperCase(str) ==
  [i \in 1..Len(str) |->
     IF HexVal(str[i]) >= 10 THEN UpperHex[HexVal(str[i]) - 9] ELSE str[i]]

Access == traffic.kind = "access"

Content == traffic.kind = "content"

\* the origin header
OriginInputs ==
  IF Access THEN {Null, <<>>, OriginApp, OriginEvil}
  ELSE IF traffic.kind = "race" THEN {OriginApp}
  ELSE {OriginApp, OriginEvil}

\* the x-api-key header
ApiKeyInputs == IF Access THEN {Null, KeyOne, KeyBad} ELSE {KeyOne}

\* the x-forwarded-for header
XffInputs == IF Access THEN {Null, <<>>, IpA} ELSE {IpA}

\* the x-real-ip header
XrealInputs == IF Access THEN {Null, <<>>, IpB} ELSE {Null}

\* the body
BodyInputs ==
  IF Content THEN RequestBodies
  ELSE IF traffic.kind = "race" THEN {<<>>}
  ELSE {<<>>, BodyAlice}

\* the signature header: absent, the client's signature of the body, that
\* signature in upper case or with characters appended, or the signature of
\* another body
SignatureInputs(body) ==
  IF Content
  THEN {Null, ClientSignature(body), UpperCase(ClientSignature(body)),
        ClientSignature(body) \o <<"z", "z">>, ClientSignature(BodyAlice)}
  ELSE {Null, ClientSignature(body)}

\* the timestamp header: absent, empty, the decimal form of an instant near
\* now, that form followed by other characters, or no number at all
TimestampInputs ==
  IF Content
  THEN {Null, <<>>, <<"a", "b", "c">>, ToDecimal(now) \o <<"a", "b", "c">>}
         \cup {ToDecimal(now - d) : d \in {0, 299999, 300000, 360000, -300000}}
  ELSE {ToDecimal(now)}

\* the user-agent header
UserAgentInputs == IF Access THEN {Null, UserAgent} ELSE {UserAgent}

\* whether reading the body fails
TextThrowsInputs == IF Content THEN {FALSE, TRUE} ELSE {FALSE}

\* how the store settles an insert
OutcomeInputs ==
  {[kind |-> "ok", message |-> ""], [kind |-> "error", message |-> "duplicate key"]}
    \cup (IF Content
          THEN {[kind |-> "error", message |-> "permission denied"],
                [kind |-> "rejects", message |-> "fetch failed"]}
          ELSE {})

\* the slots requests are handled in
SlotsInUse == IF traffic.kind \in {"overlap", "race"} THEN Slots ELSE {1}

Free(s) == reqs[s].pc \in {"idle", "done"}

\* the environment has sent one more request; a burst is not counted, it
\* ends with the calls the last window admits
Sent ==
  IF traffic.kind \in {"burst", "race"} THEN traffic ELSE [traffic EXCEPT !.sent = @ + 1]

MaySend == traffic.kind \in {"burst", "race"} \/ traffic.sent < MaxRequests

\* the calls of the identifier's window stay within the bound
CallsBounded(h, identifier, limit) == h[identifier].calls <= limit + MaxDenied

\* a POST request arrives and runs to its first await or to its response
PostArrives(s) ==
  /\ traffic.kind \in {"access", "content", "overlap", "burst", "race"} /\ s \in SlotsInUse
  /\ Free(s) /\ MaySend
  /\ \E origin \in OriginInputs, apiKey \in ApiKeyInputs,
        xff \in XffInputs, xreal \in XrealInputs :
       LET after == GateOrigin([origin |-> origin, apiKey |-> apiKey,
                                xff |-> xff, xreal |-> xreal])
       IN  /\ after.req.ip # Unread => CallsBounded(after.hist, after.req.ip, PostLimit)
           /\ reqs' = [reqs EXCEPT ![s] = after.req]
           /\ requestCounts' = after.map
           /\ hist' = after.hist
  /\ traffic' = Sent
  /\ UNCHANGED <<env, now, rlParams, leads, fcall, allowedAt>>

\* req.text() settles and POST runs to the insert or to its response
PostReadsBody(s) ==
  /\ reqs[s].pc = "text"
  /\ \E bodyText \in BodyInputs, timestamp \in TimestampInputs,
        userAgent \in UserAgentInputs, textThrows \in TextThrowsInputs :
       \E signature \in SignatureInputs(bodyText) :
         reqs' = [reqs EXCEPT ![s] =
                    GateBody(reqs[s], [bodyText |-> bodyText, signature |-> signature,
                                       timestamp |-> timestamp, userAgent |-> userAgent,
                                       textThrows |-> textThrows])]
  /\ UNCHANGED <<env, now, requestCounts, rlParams, hist, leads, traffic, fcall, allowedAt>>

\* the store settles the insert and POST runs to its response
PostInsertSettles(s) ==
  /\ reqs[s].pc = "insert"
  /\ \E outcome \in OutcomeInputs :
       /\ outcome.kind = "ok" => Len(leads) < MaxLeads
       /\ reqs' = [reqs EXCEPT ![s] =
                    [Settle(reqs[s], outcome, Len(leads) + 1)
                       EXCEPT !.settled = [kind |-> outcome.kind, message |-> outcome.message,
                                           id |-> IF outcome.kind = "ok"
                                                  THEN Len(leads) + 1 ELSE 0]]]
       /\ leads' = IF outcome.kind = "ok"
                   THEN Append(leads, [id |-> Len(leads) + 1, row |-> reqs[s].leadDB,
                                       from |-> [bodyText |-> reqs[s].bodyText,
                                                 signature |-> reqs[s].signature]])
                   ELSE leads
  /\ UNCHANGED <<env, now, requestCounts, rlParams, hist, traffic, fcall, allowedAt>>

\* an OPTIONS request arrives and is answered
OptionsArrives(s) ==
  /\ traffic.kind = "access" /\ s \in SlotsInUse
  /\ Free(s) /\ MaySend
  /\ \E origin \in OriginInputs : reqs' = [reqs EXCEPT ![s] = OptionsHandler(origin)]
  /\ traffic' = Sent
  /\ UNCHANGED <<env, now, requestCounts, rlParams, hist, leads, fcall, allowedAt>>

\* the log of an identifier, empty when it has none
MapGetLog(log, identifier) == IF identifier \in DOMAIN log THEN log[identifier] ELSE <<>>

\* checkRateLimit called directly with the limit and window of rlParams
CallCheckRateLimit ==
  /\ traffic.kind \in {"direct", "logged"} /\ fcall.op = "none"
  /\ \E identifier \in (IF traffic.kind = "logged" THEN {IpA} ELSE {IpA, IpB}) :
       LET limited == checkRateLimit(identifier, rlParams.limit, rlParams.windowMs)
           h == HistAfter(identifier, rlParams.windowMs)
       IN  /\ CallsBounded(h, identifier, rlParams.limit)
           /\ requestCounts' = limited.map
           /\ hist' = h
           /\ fcall' = [op |-> "checkRateLimit", identifier |-> identifier,
                        limit |-> rlParams.limit, windowMs |-> rlParams.windowMs,
                        at |-> now, had |-> identifier \in DOMAIN requestCounts,
                        before |-> MapGet(requestCounts, identifier),
                        seq |-> h[identifier].calls, opened |-> h[identifier].opened,
                        result |-> limited.result,
                        after |-> MapGet(limited.map, identifier)]
           /\ allowedAt' = IF limited.result /\ traffic.kind = "logged"
                           THEN MapSet(allowedAt, identifier,
                                       Append(MapGetLog(allowedAt, identifier), now))
                           ELSE allowedAt
  /\ UNCHANGED <<env, now, rlParams, reqs, leads, traffic>>

Init ==
  /\ env \in Envs
  /\ now = Epoch
  /\ requestCounts = << >>
  /\ hist = << >>
  /\ reqs = [s \in Slots |-> IdleReq]
  /\ leads = << >>
  /\ fcall = NoCall
  /\ allowedAt = << >>
  /\ \/ /\ traffic \in {[kind |-> k, sent |-> 0] : k \in {"access", "content", "overlap", "burst", "race"}}
        /\ rlParams = [limit |-> PostLimit, windowMs |-> PostWindowMs]
     \/ /\ traffic \in {[kind |-> k, sent |-> 0] : k \in {"direct", "logged"}}
        /\ rlParams \in [limit : 1..MaxLimit, windowMs : {1, PostWindowMs}]

Next ==
  \/ \E s \in Slots : PostArrives(s)
  \/ \E s \in Slots : PostReadsBody(s)
  \/ \E s \in Slots : PostInsertSettles(s)
  \/ \E s \in Slots : OptionsArrives(s)
  \/ CallCheckRateLimit
  \/ Return
  \/ Tick

Spec == Init /\ [][Next]_vars

\* the route under the scheduling the runtime gives a handler: a handler whose
\* body read has settled is resumed. Nothing in POST bounds the wait on the
\* store's insert (no timeout, no abort signal), so its settling is left to
\* the store.
SpecFair == Spec /\ \A s \in Slots : WF_vars(PostReadsBody(s))

(***************************************************************************)
(* The properties of the route.                                            *)
(***************************************************************************)
\* the gates of POST in the order of the route
GateOrder ==
  <<"origin", "apiKey", "rateLimit", "body", "headers", "freshness", "signature",
    "json", "schema">>

\* the status and reason a gate rejects with
Reason(gate) ==
  CASE gate = "origin" -> [status |-> 403, error |-> "Origin not allowed"]
    [] gate = "apiKey" -> [status |-> 401, error |-> "Invalid API Key"]
    [] gate = "rateLimit" -> [status |-> 429, error |-> "Too many requests"]
    [] gate = "body" -> [status |-> 400, error |-> "Empty body"]
    [] gate = "headers" -> [status |-> 401, error |-> "Missing security headers"]
    [] gate = "freshness" -> [status |-> 401, error |-> "Request expired"]
    [] gate = "signature" -> [status |-> 401, error |-> "Invalid signature"]
    [] gate = "json" -> [status |-> 400, error |-> "Invalid JSON"]
    [] gate = "schema" -> [status |-> 400, error |-> "Validation failed"]

\* what a gate demands of the request, stated on what the request carried
GateHolds(r, gate) ==
  CASE gate = "origin" ->
         r.origin # Null /\ \E i \in 1..Len(ALLOWED_ORIGINS) :
                              Includes(r.origin, ALLOWED_ORIGINS[i])
    [] gate = "apiKey" ->
         r.apiKey # Null /\ \E i \in 1..Len(VALID_API_KEYS) : VALID_API_KEYS[i] = r.apiKey
    [] gate = "rateLimit" -> r.rlSeq \in 1..PostLimit
    [] gate = "body" -> r.bodyText # Null /\ r.bodyText # <<>>
    [] gate = "headers" ->
         /\ r.signature # Null /\ r.signature # <<>>
         /\ r.timestamp # Null /\ r.timestamp # <<>>
    [] gate = "freshness" ->
         /\ ~parseInt(r.timestamp).nan
         /\ r.readAt - parseInt(r.timestamp).val < 300000
         /\ parseInt(r.timestamp).val - r.readAt < 300000
    [] gate = "signature" ->
         /\ env.WEBHOOK_SECRET # Null
         /\ HexDecode(r.signature) = createHmac(env.WEBHOOK_SECRET, r.bodyText)
    [] gate = "json" -> JsonParse(r.bodyText).ok
    [] gate = "schema" -> LeadSchemaSafeParse(r.bodyText).success

IsPost(s) == reqs[s].pc # "idle" /\ reqs[s].method = "POST"

LastGate(r) == r.gates[Len(r.gates)]

\* the request was rejected by a gate
Failed(r) == r.gates # <<>> /\ LastGate(r).verdict = "fail"

\* the request passed the nine gates
PassedAll(r) ==
  Len(r.gates) = Len(GateOrder) /\ \A i \in 1..Len(r.gates) : r.gates[i].verdict = "pass"

\* the gates a request has been through are the first gates of the order, all
\* passed but possibly the last; a request rejected by a gate carries that
\* gate's response, has called no insert, and has reached the rate limiter
\* only past the origin and API-key gates
GateTraceOrdered ==
  \A s \in Slots :
    IsPost(s) =>
      LET r == reqs[s]
          g == r.gates
      IN  /\ Len(g) <= Len(GateOrder)
          /\ \A i \in 1..Len(g) : g[i].gate = GateOrder[i]
          /\ \A i \in 1..(Len(g) - 1) : g[i].verdict = "pass"
          /\ Failed(r) => /\ r.pc = "done"
                          /\ r.response.status = Reason(LastGate(r).gate).status
                          /\ r.response.error = Reason(LastGate(r).gate).error
          /\ ~PassedAll(r) => r.inserts = 0
          /\ Len(g) < 3 => r.ip = Unread /\ r.rlSeq = 0

\* a request that ends before the rate-limit gate leaves the rate limiter's
\* map as it was
EarlyEndLeavesRateLimiter ==
  \A s \in Slots :
    (/\ reqs'[s] # reqs[s]
     /\ reqs'[s].pc = "done"
     /\ reqs'[s].method = "POST"
     /\ Len(reqs'[s].gates) < 3)
    => requestCounts' = requestCounts

\* C1: the gates of POST are evaluated in the fixed order, the first failing
\* gate produces the response and no gate is evaluated after it; a request
\* failing the origin or API-key gate never reaches checkRateLimit and a
\* request failing any gate never reaches the insert.
GateOrderShortCircuit == []GateTraceOrdered /\ [][EarlyEndLeavesRateLimiter]_vars

\* a request rejected by the eighth gate after passing the first seven
GateOrderWitness ==
  \E s \in Slots :
    /\ IsPost(s) /\ reqs[s].pc = "done"
    /\ Len(reqs[s].gates) = 8 /\ LastGate(reqs[s]).verdict = "fail"
    /\ reqs[s].response.status = 400 /\ reqs[s].response.error = "Invalid JSON"
    /\ reqs[s].inserts = 0

\* C2: the insert has been called for a request only if the request passed
\* the nine gates, each gate passing exactly when the request meets its
\* demand; every failure of a gate ends the request with that gate's reason.
InsertOnlyAfterAllGates ==
  \A s \in Slots :
    IsPost(s) =>
      LET r == reqs[s]
      IN  /\ (r.inserts > 0 \/ r.pc = "insert") =>
               /\ Len(r.gates) = Len(GateOrder)
               /\ \A i \in 1..Len(GateOrder) : GateHolds(r, GateOrder[i])
          /\ \A i \in 1..Len(r.gates) :
               /\ r.gates[i].verdict = "pass" => GateHolds(r, r.gates[i].gate)
               /\ r.gates[i].verdict = "fail" =>
                    /\ ~GateHolds(r, r.gates[i].gate)
                    /\ r.pc = "done" /\ r.inserts = 0
                    /\ r.response.status = Reason(r.gates[i].gate).status
                    /\ r.response.error = Reason(r.gates[i].gate).error

\* the insert has been called for a request and has not settled yet
InsertWitness ==
  \E s \in Slots :
    /\ IsPost(s) /\ reqs[s].pc = "insert" /\ reqs[s].inserts = 1
    /\ reqs[s].bodyText = BodyBob
    /\ reqs[s].leadDB.name = <<"B", "o", "b">>

\* C3: a request that passed the nine gates has called the insert exactly
\* once when it ends, and a rejected request has called it not at all.
ExactlyOneInsert ==
  \A s \in Slots :
    (IsPost(s) /\ reqs[s].pc = "done") =>
      IF PassedAll(reqs[s]) THEN reqs[s].inserts = 1 ELSE reqs[s].inserts = 0

\* C4: the status of a POST response follows the outcome: 403 origin; 401 API
\* key, security headers, freshness, signature; 429 rate limit; 400 empty
\* body, JSON, schema (with the violations); 500 store error or exception;
\* 201 with success, leadId and message; no other status.
StatusByOutcome ==
  \A s \in Slots :
    (IsPost(s) /\ reqs[s].pc = "done") =>
      LET r == reqs[s]
          st == r.response.status
          failedAt(gs) == Failed(r) /\ LastGate(r).gate \in gs
      IN  /\ st \in {403, 401, 429, 400, 500, 201}
          /\ st = 403 <=> failedAt({"origin"})
          /\ st = 401 <=> failedAt({"apiKey", "headers", "freshness", "signature"})
          /\ st = 429 <=> failedAt({"rateLimit"})
          /\ st = 400 <=> failedAt({"body", "json", "schema"})
          /\ failedAt({"schema"}) => r.response.violations # <<>>
          /\ st = 201 <=> (r.response.success /\ PassedAll(r) /\ r.inserts = 1)
          /\ st = 201 => /\ r.response.leadId \in {leads[i].id : i \in 1..Len(leads)}
                         /\ r.response.message = "Lead received successfully"
          /\ st = 500 <=> (~Failed(r) /\ ~r.response.success)
          /\ st = 500 => r.response.error \in {"Database error", "Internal server error"}

\* a schema violation answered 400 with the list of violations
StatusWitness ==
  \E s \in Slots :
    /\ IsPost(s) /\ reqs[s].pc = "done"
    /\ reqs[s].bodyText = BodyAl
    /\ reqs[s].response.status = 400
    /\ reqs[s].response.error = "Validation failed"
    /\ Len(reqs[s].response.violations) >= 1

\* C5: of the requests past the header gate, one whose timestamp is outside
\* the five minutes gets 401 'Request expired' whatever its signature, one
\* with a fresh timestamp whose body differs by one byte from the body its
\* signature was made for gets 401 'Invalid signature', and one answered 201
\* met both demands.
FreshnessBeforeSignature ==
  \A s \in Slots :
    (/\ IsPost(s) /\ reqs[s].pc = "done"
     /\ Len(reqs[s].gates) >= 5 /\ reqs[s].gates[5].verdict = "pass") =>
      LET r == reqs[s]
          fresh == GateHolds(r, "freshness")
          tampered == \E B \in RequestBodies :
                        OneCharDiff(r.bodyText, B) /\ r.signature = ClientSignature(B)
      IN  /\ ~fresh => /\ r.response.status = 401
                       /\ r.response.error = "Request expired"
          /\ (fresh /\ tampered) => /\ r.response.status = 401
                                    /\ r.response.error = "Invalid signature"
          /\ r.response.status = 201 => fresh /\ GateHolds(r, "signature")

\* the calls of checkRateLimit made directly
DirectCallsLimited ==
  fcall.op = "checkRateLimit" =>
    /\ fcall.at - fcall.opened <= fcall.windowMs
    /\ fcall.seq > fcall.limit => ~fcall.result /\ fcall.after = fcall.before
    /\ fcall.seq <= fcall.limit => fcall.result /\ fcall.after.count = fcall.seq
    /\ (fcall.had /\ fcall.seq = 1) =>
         /\ fcall.at - fcall.before.resetAt > 0
         /\ fcall.result
         /\ fcall.after = [count |-> 1, resetAt |-> fcall.at + fcall.windowMs]

\* the requests that reached the rate-limit gate
RequestsLimited ==
  \A s \in Slots :
    (IsPost(s) /\ reqs[s].rlSeq > 0) =>
      LET r == reqs[s]
      IN  /\ r.rlAt - r.rlOpened <= PostWindowMs
          /\ r.rlSeq > PostLimit => /\ r.pc = "done"
                                    /\ r.response.status = 429
                                    /\ r.response.error = "Too many requests"
          /\ r.rlSeq <= PostLimit => r.gates[3].verdict = "pass"

\* C10: of the calls of checkRateLimit for one identifier, the (N+1)-th made
\* within W of the call that opened the window is denied, and the first made
\* after the window has elapsed is allowed and leaves the count at 1; the
\* 21st request of one IP within 60 s that passed the origin and API-key
\* gates gets 429, whatever became of the 20 before it.
RateLimitWindow == DirectCallsLimited /\ RequestsLimited

\* the 21st request of a window, 1 ms after the first, answered 429 after an
\* earlier one was stored
RateLimitWitness ==
  \E s \in Slots :
    /\ IsPost(s) /\ reqs[s].pc = "done"
    /\ reqs[s].rlSeq = PostLimit + 1
    /\ reqs[s].rlAt - reqs[s].rlOpened = 1
    /\ reqs[s].response.status = 429
    /\ Len(leads) = 1

\* the smaller of two numbers
Min(a, b) == IF a <= b THEN a ELSE b

\* C11: under every interleaving of the requests in flight, no update of the
\* rate limiter is lost: an identifier's entry counts the calls allowed in
\* its window, which are never more than the limit.
NoLostUpdate ==
  /\ DOMAIN requestCounts = DOMAIN hist
  /\ \A id \in DOMAIN requestCounts :
       /\ requestCounts[id].count = Min(hist[id].calls, rlParams.limit)
       /\ requestCounts[id].count <= rlParams.limit
       /\ requestCounts[id].resetAt = hist[id].opened + rlParams.windowMs
  /\ \A s \in Slots :
       (IsPost(s) /\ reqs[s].rlSeq > 0 /\ reqs[s].rlOpened = hist[reqs[s].ip].opened) =>
         /\ reqs[s].rlSeq <= hist[reqs[s].ip].calls
         /\ reqs[s].gates[3].verdict = "pass" =>
              reqs[s].rlSeq <= requestCounts[reqs[s].ip].count
  /\ \A s, t \in Slots :
       (/\ s # t /\ IsPost(s) /\ IsPost(t) /\ reqs[s].rlSeq > 0 /\ reqs[t].rlSeq > 0
        /\ reqs[s].ip = reqs[t].ip /\ reqs[s].rlOpened = reqs[t].rlOpened)
       => reqs[s].rlSeq # reqs[t].rlSeq

\* the first request of a window is still in flight, waiting for its body,
\* when the 21st of the same identifier is denied; the entry counts 20
NoLostUpdateWitness ==
  \E s, t \in Slots :
    /\ s # t /\ IsPost(s) /\ IsPost(t)
    /\ reqs[s].pc = "text" /\ reqs[s].rlSeq = 1
    /\ reqs[t].pc = "done" /\ reqs[t].rlSeq = PostLimit + 1
    /\ reqs[t].response.status = 429
    /\ reqs[s].ip = reqs[t].ip
    /\ requestCounts[reqs[s].ip].count = PostLimit

\* the allowed calls of a log made within the interval of length windowMs that
\* starts at the time of its i-th call
InInterval(log, i, windowMs) ==
  Cardinality({j \in 1..Len(log) : log[j] - log[i] >= 0 /\ log[j] - log[i] <= windowMs})

\* the tightest burst across a window boundary: a window's opener, its other
\* limit - 1 allowed calls made at the last instant of the window, and limit
\* allowed calls made at the first instant after it
TightBurst(log, limit, windowMs) ==
  LET n == Len(log)
  IN  /\ n >= 2 * limit
      /\ \A j \in (n - limit + 1)..n : log[j] = log[n]
      /\ \A j \in (n - 2 * limit + 2)..(n - limit) : log[j] = log[n] - 1
      /\ log[n - 2 * limit + 1] = log[n] - 1 - windowMs

\* C12 as stated: the calls allowed to an identifier within an interval of
\* length W are at most 2 * N, and a burst across a window boundary reaches
\* 2 * N.
BurstReachesTwiceLimit ==
  \A id \in DOMAIN allowedAt :
    /\ \A i \in 1..Len(allowedAt[id]) :
         InInterval(allowedAt[id], i, rlParams.windowMs) <= 2 * rlParams.limit
    /\ TightBurst(allowedAt[id], rlParams.limit, rlParams.windowMs) =>
         \E i \in 1..Len(allowedAt[id]) :
           InInterval(allowedAt[id], i, rlParams.windowMs) = 2 * rlParams.limit

\* C12 as amended: the calls allowed to an identifier within an interval of
\* length W are at most 2 * N - 1; the tightest burst across a window
\* boundary reaches 2 * N - 1.
BurstBelowTwiceLimit ==
  \A id \in DOMAIN allowedAt :
    /\ \A i \in 1..Len(allowedAt[id]) :
         InInterval(allowedAt[id], i, rlParams.windowMs) <= 2 * rlParams.limit - 1
    /\ (rlParams.windowMs >= 1
          /\ TightBurst(allowedAt[id], rlParams.limit, rlParams.windowMs)) =>
         \E i \in 1..Len(allowedAt[id]) :
           InInterval(allowedAt[id], i, rlParams.windowMs) = 2 * rlParams.limit - 1

\* with limit 2, three calls allowed within one interval of length W: one at
\* the end of a window and two right after it
BurstWitness ==
  /\ rlParams.limit = 2 /\ rlParams.windowMs = PostWindowMs
  /\ \E id \in DOMAIN allowedAt :
       /\ TightBurst(allowedAt[id], 2, PostWindowMs)
       /\ \E i \in 1..Len(allowedAt[id]) : InInterval(allowedAt[id], i, PostWindowMs) = 3

(***************************************************************************)
(* The access gate called directly: checkCORS and checkAPIKey on bounded   *)
(* origins and keys, under several settings of the two lists.              *)
(***************************************************************************)
\* "example.com,,b.io," and "k1,,k2,": lists with empty entries
OriginsGapped ==
  <<"e", "x", "a", "m", "p", "l", "e", ".", "c", "o", "m", ",", ",", "b", ".", "i", "o",
    ",">>

ApiKeysGapped == <<"k", "1", ",", ",", "k", "2", ",">>

\* the settings of ALLOWED_ORIGINS and API_KEYS: unset, empty, one entry,
\* two entries, entries with empty ones between and after them, only commas
AccessEnvs ==
  { [FullEnv EXCEPT !.ALLOWED_ORIGINS = Null, !.API_KEYS = Null],
    [FullEnv EXCEPT !.ALLOWED_ORIGINS = <<>>, !.API_KEYS = <<>>],
    [FullEnv EXCEPT !.ALLOWED_ORIGINS = <<"b", ".", "i", "o">>, !.API_KEYS = <<"k", "2">>],
    FullEnv,
    [FullEnv EXCEPT !.ALLOWED_ORIGINS = OriginsGapped, !.API_KEYS = ApiKeysGapped],
    [FullEnv EXCEPT !.ALLOWED_ORIGINS = <<",", ",">>, !.API_KEYS = <<",">>] }

\* origins: absent, empty, origins that contain an entry, equal one, contain
\* part of one or one in another case, and separators alone
OriginCandidates ==
  { Null, <<>>, OriginApp, OriginEvil,
    <<"e", "x", "a", "m", "p", "l", "e", ".", "c", "o", "m">>,
    <<"e", "x", "a", "m", "p", "l", "e", ".", "c", "o">>,
    <<"E", "X", "A", "M", "P", "L", "E", ".", "C", "O", "M">>,
    <<"b", ".", "i", "o">>, <<"x", "b", ".", "i", "o", "x">>, <<"b", "i", "o">>,
    <<",">>, OriginsValue }

\* keys: absent, empty, valid keys, and keys that contain, begin or vary one
KeyCandidates ==
  { Null, <<>>, KeyOne, <<"k", "2">>, KeyBad, <<"k">>, <<"K", "1">>, <<"k", "1", " ">>,
    <<"x", "k", "1">>, <<"k", "1", "2">>, <<",">>, ApiKeysValue }

CallCheckCORS ==
  /\ fcall.op = "none"
  /\ \E origin \in OriginCandidates :
       fcall' = [op |-> "checkCORS", origin |-> origin, result |-> checkCORS(origin)]
  /\ UNCHANGED <<env, now, requestCounts, rlParams, hist, reqs, leads, traffic, allowedAt>>

CallCheckAPIKey ==
  /\ fcall.op = "none"
  /\ \E apiKey \in KeyCandidates :
       fcall' = [op |-> "checkAPIKey", apiKey |-> apiKey, result |-> checkAPIKey(apiKey)]
  /\ UNCHANGED <<env, now, requestCounts, rlParams, hist, reqs, leads, traffic, allowedAt>>

AccessInit ==
  /\ env \in AccessEnvs
  /\ now = Epoch
  /\ requestCounts = << >>
  /\ rlParams = [limit |-> PostLimit, windowMs |-> PostWindowMs]
  /\ hist = << >>
  /\ reqs = [s \in Slots |-> IdleReq]
  /\ leads = << >>
  /\ traffic = NoTraffic
  /\ fcall = NoCall
  /\ allowedAt = << >>

AccessNext == CallCheckCORS \/ CallCheckAPIKey \/ Return

SpecAccess == AccessInit /\ [][AccessNext]_vars

\* the entries a comma-separated setting configures: its non-empty stretches
\* between commas; none when it is unset
Entries(value) ==
  IF value = Null THEN {}
  ELSE UNION { { SubSeq(value, i, k) :
                   k \in { k \in i..Len(value) :
                             /\ \A m \in i..k : value[m] # ","
                             /\ (i = 1 \/ value[i - 1] = ",")
                             /\ (k = Len(value) \/ value[k + 1] = ",") } } :
               i \in 1..Len(value) }

\* C13: checkCORS(origin) is true exactly when origin is non-empty and some
\* configured entry of the allow-list is a substring of it; an empty or
\* absent origin is denied whatever the allow-list.
OriginAllowedIffContainsEntry ==
  fcall.op = "checkCORS" =>
    (fcall.result <=>
       (/\ fcall.origin # Null /\ fcall.origin # <<>>
        /\ \E e \in Entries(env.ALLOWED_ORIGINS) :
             \E i \in 1..Len(fcall.origin), j \in 1..Len(fcall.origin) :
               SubSeq(fcall.origin, i, j) = e))

\* 'https://app.example.com' allowed by an allow-list that holds 'example.com'
OriginAllowedWitness ==
  /\ fcall.op = "checkCORS" /\ fcall.origin = OriginApp
  /\ <<"e", "x", "a", "m", "p", "l", "e", ".", "c", "o", "m">> \in Entries(env.ALLOWED_ORIGINS)
  /\ fcall.result = TRUE

\* C14: checkAPIKey(key) is true exactly when key is non-empty and equals one
\* of the configured keys; an absent or empty key is denied.
KeyValidIffConfigured ==
  fcall.op = "checkAPIKey" =>
    (fcall.result <=>
       (/\ fcall.apiKey # Null /\ fcall.apiKey # <<>>
        /\ fcall.apiKey \in Entries(env.API_KEYS)))

\* a configured key accepted
KeyValidWitness ==
  /\ fcall.op = "checkAPIKey" /\ fcall.apiKey = KeyOne
  /\ KeyOne \in Entries(env.API_KEYS) /\ Cardinality(Entries(env.API_KEYS)) = 2
  /\ fcall.result = TRUE

\* C15: the Access-Control-Allow-Origin header of a POST response echoes the
\* caller's origin only when the origin and API-key gates let the request
\* through; a 403 for a disallowed origin does not echo it.
EchoOnlyWhenAllowed ==
  \A s \in Slots :
    (/\ IsPost(s) /\ reqs[s].pc = "done"
     /\ reqs[s].origin # Null /\ reqs[s].origin # <<>>
     /\ reqs[s].response.acao = reqs[s].origin) =>
      /\ reqs[s].response.status # 403
      /\ Len(reqs[s].gates) >= 2
      /\ reqs[s].gates[1].verdict = "pass" /\ reqs[s].gates[2].verdict = "pass"

IsOptions(s) == reqs[s].pc # "idle" /\ reqs[s].method = "OPTIONS"

\* an OPTIONS request is answered 200 with the CORS headers of its origin and
\* has been through no gate
OptionsAnswered ==
  \A s \in Slots :
    IsOptions(s) =>
      /\ reqs[s].pc = "done"
      /\ reqs[s].response.status = 200
      /\ reqs[s].response.acao =
           (IF reqs[s].origin = Null \/ reqs[s].origin = <<>> THEN <<"*">>
            ELSE reqs[s].origin)
      /\ reqs[s].gates = <<>>
      /\ reqs[s].apiKey = Unread /\ reqs[s].ip = Unread
      /\ reqs[s].rlSeq = 0 /\ reqs[s].inserts = 0

\* the step that answers an OPTIONS request changes neither the rate
\* limiter's map nor the store
OptionsLeavesState ==
  \A s \in Slots :
    (reqs'[s] # reqs[s] /\ reqs'[s].pc = "done" /\ reqs'[s].method = "OPTIONS") =>
      /\ requestCounts' = requestCounts
      /\ leads' = leads

\* C16: an OPTIONS request gets 200 with CORS headers whatever its origin,
\* without checkCORS or checkAPIKey being called, and leaves the rate-limit
\* map and the store unchanged.
OptionsAlwaysOk == []OptionsAnswered /\ [][OptionsLeavesState]_vars

\* an OPTIONS request of a disallowed origin answered 200 after a POST request
\* has left an entry in the rate limiter's map
OptionsWitness ==
  \E s \in Slots :
    /\ IsOptions(s) /\ reqs[s].origin = OriginEvil
    /\ reqs[s].response.status = 200 /\ reqs[s].response.acao = OriginEvil
    /\ ~checkCORS(OriginEvil)
    /\ DOMAIN requestCounts # {}

\* C17: when the store's insert returns an error the request ends with 500
\* "Database error" carrying the store's diagnostic, after one insert call and
\* no other; when the insert succeeds the request ends with 201 and the leadId
\* of the response is the id of the row the store returned.
InsertResultAnswered ==
  \A s \in Slots :
    (IsPost(s) /\ reqs[s].pc = "done") =>
      /\ reqs[s].settled.kind = "error" =>
            /\ reqs[s].response.status = 500
            /\ reqs[s].response.error = "Database error"
            /\ reqs[s].response.details = reqs[s].settled.message
            /\ reqs[s].response.success = FALSE
            /\ reqs[s].inserts = 1
      /\ reqs[s].settled.kind = "ok" =>
            /\ reqs[s].response.status = 201
            /\ reqs[s].response.success = TRUE
            /\ reqs[s].response.leadId = reqs[s].settled.id
            /\ \E i \in 1..Len(leads) :
                  leads[i].id = reqs[s].settled.id /\ leads[i].row = reqs[s].leadDB
            /\ reqs[s].inserts = 1

\* a store error answered with its diagnostic after an earlier lead was stored
InsertResultWitness ==
  \E s \in Slots :
    /\ IsPost(s) /\ reqs[s].pc = "done"
    /\ reqs[s].settled = [kind |-> "error", message |-> "permission denied", id |-> 0]
    /\ reqs[s].response.details = "permission denied"
    /\ Len(leads) = 1

\* C18: every POST request that has called the store's insert is eventually
\* answered, even when the store never completes the call.
InsertEventuallyAnswered ==
  \A s \in Slots : (reqs[s].pc = "insert") ~> (reqs[s].pc = "done")

\* an exception was thrown while the request was handled: the body could not
\* be read, the signing secret was missing, the store client could not be
\* built, or the insert promise was rejected
HandlingThrew(r) ==
  \/ r.readAt # 0 /\ r.bodyText = Unread
  \/ r.gates # <<>> /\ LastGate(r).verdict = "throw"
  \/ PassedAll(r) /\ ~env.SUPABASE
  \/ r.settled.kind = "rejects"

\* C19: no exception escapes POST: a request whose handling threw ends with
\* the structured 500 "Internal server error" carrying the exception's
\* message, a request rejected by a gate ends with a structured rejection, and
\* a request has no response while it is handled and exactly one, with a
\* status code, once it has ended.
NoExceptionEscapes ==
  \A s \in Slots :
    IsPost(s) =>
      /\ reqs[s].pc \in {"text", "insert", "done"}
      /\ reqs[s].pc # "done" => reqs[s].response = NoResponse /\ ~HandlingThrew(reqs[s])
      /\ reqs[s].pc = "done" =>
            /\ reqs[s].response.status \in {201, 400, 401, 403, 429, 500}
            /\ reqs[s].response.acao # Unread
            /\ reqs[s].response.status = 201 =>
                  reqs[s].response.success /\ reqs[s].response.error = ""
            /\ reqs[s].response.status # 201 =>
                  ~reqs[s].response.success /\ reqs[s].response.error # ""
            /\ Failed(reqs[s]) => reqs[s].response.status \in {400, 401, 403, 429}
            /\ HandlingThrew(reqs[s]) =>
                  /\ reqs[s].response.status = 500
                  /\ reqs[s].response.error = "Internal server error"
                  /\ reqs[s].response.details # ""

\* a rejected insert promise answered with the structured 500
NoExceptionWitness ==
  \E s \in Slots :
    /\ IsPost(s) /\ reqs[s].pc = "done"
    /\ reqs[s].settled.kind = "rejects"
    /\ reqs[s].response.status = 500
    /\ reqs[s].response.details = "fetch failed"

\* the response is the outcome of a configuration value being absent
AnsweredForMissingConfiguration(r) ==
  \/ /\ ~Truthy(env.ALLOWED_ORIGINS)
     /\ r.response.status = 403 /\ r.response.error = "Origin not allowed"
  \/ /\ ~Truthy(env.API_KEYS)
     /\ r.response.status = 401 /\ r.response.error = "Invalid API Key"
  \/ /\ ~Truthy(env.WEBHOOK_SECRET)
     /\ r.response.status = 500
     /\ r.response.details = "WEBHOOK_SECRET environment variable is not set"
  \/ /\ ~env.SUPABASE
     /\ r.response.status = 500
     /\ r.response.details = "Missing Supabase environment variables"

\* C20: missing configuration (signing secret, origin allow-list, API keys,
\* store credentials) is fatal at startup and never a per-request outcome: no
\* request is answered 403, 401 or 500 because a configuration value is
\* absent.
ConfigurationFatalAtStartup ==
  \A s \in Slots :
    (IsPost(s) /\ reqs[s].pc = "done") => ~AnsweredForMissingConfiguration(reqs[s])

\* str is the decimal form of an integer: one or more digits and nothing else
WellFormedDecimal(str) ==
  /\ str # Null /\ str # Unread /\ Len(str) >= 1
  /\ \A i \in 1..Len(str) : IsDigit(str[i])

\* C21: a request whose timestamp header is not a well-formed decimal integer
\* is denied and never persisted, even when the digits it starts with are a
\* fresh timestamp and the signature is valid.
MalformedTimestampDenied ==
  \A s \in Slots :
    (/\ IsPost(s) /\ reqs[s].timestamp # Unread
     /\ ~WellFormedDecimal(reqs[s].timestamp)) =>
      /\ reqs[s].pc = "done"
      /\ reqs[s].response.status \in {400, 401, 500}
      /\ reqs[s].inserts = 0

\* the request has handed a row to the store
HasRow(s) == IsPost(s) /\ reqs[s].inserts = 1

\* the members of the JSON object the request carried
PayloadOf(s) == JsonParse(reqs[s].bodyText).fields

\* C22: the notes of the stored lead are the payload's notes whenever notes is
\* present, and the payload's message only when notes is absent.
StoredNotesPreferNotes ==
  \A s \in Slots :
    HasRow(s) =>
      /\ NotesKey \in DOMAIN PayloadOf(s) =>
            reqs[s].leadDB.notes = PayloadOf(s)[NotesKey].str
      /\ NotesKey \notin DOMAIN PayloadOf(s) =>
            reqs[s].leadDB.notes = Field(PayloadOf(s), MessageKey)

\* C23 as stated: the source of the stored lead is the payload's source
\* whenever the payload has one, otherwise the origin, otherwise
\* "api-webhook"; status and priority are the fixed values.
StoredSourceWhenPresent ==
  \A s \in Slots :
    HasRow(s) =>
      /\ SourceKey \in DOMAIN PayloadOf(s) =>
            reqs[s].leadDB.source = PayloadOf(s)[SourceKey].str
      /\ SourceKey \notin DOMAIN PayloadOf(s) =>
            reqs[s].leadDB.source =
              (IF reqs[s].origin # Null /\ reqs[s].origin # <<>> THEN reqs[s].origin
               ELSE ApiWebhook)
      /\ reqs[s].leadDB.status = "Recibido"
      /\ reqs[s].leadDB.priority = "media"

\* C23 as amended: the source of the stored lead is the payload's source when
\* it is present and not empty, otherwise the request's origin, otherwise
\* "api-webhook"; status is "Recibido" and priority "media" whatever the
\* payload contains.
StoredSourceWhenNonEmpty ==
  \A s \in Slots :
    HasRow(s) =>
      /\ reqs[s].leadDB.source =
           (IF SourceKey \in DOMAIN PayloadOf(s) /\ PayloadOf(s)[SourceKey].str # <<>>
            THEN PayloadOf(s)[SourceKey].str
            ELSE IF reqs[s].origin # Null /\ reqs[s].origin # <<>> THEN reqs[s].origin
            ELSE ApiWebhook)
      /\ reqs[s].leadDB.status = "Recibido"
      /\ reqs[s].leadDB.priority = "media"

\* a lead stored with the origin as its source and the fixed priority, from a
\* payload whose source is empty and which names a priority of its own
StoredSourceWitness ==
  \E s \in Slots :
    /\ HasRow(s) /\ reqs[s].bodyText = BodyPlain
    /\ reqs[s].leadDB.source = OriginApp
    /\ reqs[s].leadDB.priority = "media"
    /\ \E i \in 1..Len(leads) : leads[i].row = reqs[s].leadDB

\* the verdict of the schema gate on the request, "none" when the request has
\* not reached it
SchemaVerdict(r) ==
  IF \E i \in 1..Len(r.gates) : r.gates[i].gate = "schema"
  THEN LastGate(r).verdict ELSE "none"

\* no member of the payload has a type the schema does not expect
WellTyped(fields) ==
  \A k \in (DOMAIN fields) \cap SchemaKeys :
    fields[k].type = (IF k = TimestampKey THEN "number" ELSE "string")

\* C24: a record is accepted only if its name has at least 2 characters and
\* it has an email of valid format or a phone of at least 9 characters; a
\* record with neither email nor phone is rejected with the contact-channel
\* violation, and the rejection comes before the stored lead is built.
SchemaRequiresContact ==
  \A s \in Slots :
    (IsPost(s) /\ SchemaVerdict(reqs[s]) # "none") =>
      LET value == JsonParse(reqs[s].bodyText)
      IN  /\ SchemaVerdict(reqs[s]) = "pass" =>
                /\ value.type = "object"
                /\ NameKey \in DOMAIN value.fields
                /\ Len(value.fields[NameKey].str) >= 2
                /\ \/ /\ EmailKey \in DOMAIN value.fields
                      /\ IsEmail(value.fields[EmailKey].str)
                   \/ /\ PhoneKey \in DOMAIN value.fields
                      /\ Len(value.fields[PhoneKey].str) >= 9
          /\ (/\ value.type = "object"
              /\ EmailKey \notin DOMAIN value.fields
              /\ PhoneKey \notin DOMAIN value.fields) =>
                /\ SchemaVerdict(reqs[s]) = "fail"
                /\ reqs[s].response.status = 400
                /\ reqs[s].response.error = "Validation failed"
                /\ WellTyped(value.fields) =>
                      \E i \in 1..Len(reqs[s].response.violations) :
                        reqs[s].response.violations[i] = RefineIssue
                /\ reqs[s].leadDB = NoLead /\ reqs[s].inserts = 0

\* the record with name "Al" and no contact channel rejected with the
\* contact-channel violation, after the record of Alice was stored
SchemaContactWitness ==
  \E s \in Slots :
    /\ IsPost(s) /\ reqs[s].bodyText = BodyAl
    /\ SchemaVerdict(reqs[s]) = "fail"
    /\ reqs[s].response.violations = <<RefineIssue>>
    /\ Len(leads) = 1 /\ leads[1].row.name = <<"A", "l", "i", "c", "e">>

\* C25: a call of checkRateLimit for an identifier with no entry, or made
\* after the entry's resetAt, leaves the entry at count 1 with resetAt = now +
\* windowMs and is allowed; otherwise, with count below the limit, it adds
\* exactly 1 to count, leaves resetAt as it was and is allowed; otherwise it
\* is denied. A call at now = resetAt belongs to the old window.
RateLimitTransition ==
  fcall.op = "checkRateLimit" =>
    IF ~fcall.had \/ fcall.at > fcall.before.resetAt
    THEN /\ fcall.result
         /\ fcall.after = [count |-> 1, resetAt |-> fcall.at + fcall.windowMs]
    ELSE IF fcall.before.count < fcall.limit
    THEN /\ fcall.result
         /\ fcall.after.count = fcall.before.count + 1
         /\ fcall.after.resetAt = fcall.before.resetAt
    ELSE ~fcall.result

\* a call made at the very instant resetAt, counted in the old window
RateLimitTransitionWitness ==
  /\ fcall.op = "checkRateLimit" /\ fcall.had
  /\ fcall.at = fcall.before.resetAt /\ fcall.windowMs = PostWindowMs
  /\ fcall.result
  /\ fcall.after = [count |-> 2, resetAt |-> fcall.at]

\* the identifier the headers of a request give: x-forwarded-for when it is
\* present and not empty, else x-real-ip when it is present and not empty,
\* else "unknown"
IdentifierOf(r) ==
  IF r.xff # Null /\ r.xff # <<>> THEN r.xff
  ELSE IF r.xreal # Null /\ r.xreal # <<>> THEN r.xreal
  ELSE Unknown

\* C26: the rate limiter is called with the identifier the headers give, so
\* the requests with neither header share the entry of "unknown", and the
\* ip_address of the stored lead is that same identifier.
IdentifierFromHeaders ==
  \A s \in Slots :
    (IsPost(s) /\ reqs[s].rlSeq > 0) =>
      /\ reqs[s].ip = IdentifierOf(reqs[s])
      /\ IdentifierOf(reqs[s]) \in DOMAIN requestCounts
      /\ reqs[s].rlOpened = hist[IdentifierOf(reqs[s])].opened =>
            /\ reqs[s].rlSeq <= hist[IdentifierOf(reqs[s])].calls
            /\ reqs[s].gates[3].verdict = "pass" =>
                  reqs[s].rlSeq <= requestCounts[IdentifierOf(reqs[s])].count
      /\ reqs[s].leadDB # NoLead => reqs[s].leadDB.ip_address = IdentifierOf(reqs[s])

\* the second of two requests without a usable header, counted second in the
\* entry of "unknown", its lead stored with ip_address "unknown"
IdentifierWitness ==
  \E s \in Slots :
    /\ HasRow(s) /\ reqs[s].xff = <<>> /\ reqs[s].xreal = Null
    /\ reqs[s].rlSeq = 2
    /\ requestCounts[Unknown].count = 2
    /\ reqs[s].leadDB.ip_address = Unknown
    /\ DOMAIN requestCounts = {Unknown}

\* a step removes no identifier from the rate limiter's map
EntriesKept == DOMAIN requestCounts \subseteq DOMAIN requestCounts'

\* every entry counts at least 1 and at most the limit
CountsWithinLimit ==
  \A id \in DOMAIN requestCounts :
    1 <= requestCounts[id].count /\ requestCounts[id].count <= rlParams.limit

\* C27: entries of the rate limiter are never deleted, so the set of
\* identifiers in its map only grows, and with one limit N >= 1 for every
\* call each entry has 1 <= count <= N in every reachable state.
EntriesOnlyGrow == [][EntriesKept]_vars /\ []CountsWithinLimit

\* two identifiers in the map, one of them at the limit with its window over
EntriesWitness ==
  /\ Cardinality(DOMAIN requestCounts) = 2
  /\ \E id \in DOMAIN requestCounts :
        /\ now > requestCounts[id].resetAt
        /\ requestCounts[id].count = rlParams.limit
  /\ \E id \in DOMAIN requestCounts : now <= requestCounts[id].resetAt

\* the count a further allowed call leaves in the identifier's entry
CountAfterAllowed(identifier) ==
  IF identifier \notin DOMAIN requestCounts \/ now > requestCounts[identifier].resetAt
  THEN 1 ELSE requestCounts[identifier].count + 1

\* the step in which a POST request arrives: rejected at the origin or API-key
\* gate it leaves the map as it was; past them it is either denied with 429,
\* the map as it was, or counted as one allowed call in its identifier's
\* entry, every other entry as it was
ArrivalConsumesBudget ==
  \A s \in Slots :
    (/\ Free(s) /\ reqs'[s] # reqs[s]
     /\ reqs'[s].pc # "idle" /\ reqs'[s].method = "POST") =>
      IF reqs'[s].rlSeq = 0
      THEN /\ reqs'[s].response.status \in {401, 403}
           /\ requestCounts' = requestCounts
      ELSE IF reqs'[s].response.status = 429
      THEN requestCounts' = requestCounts
      ELSE /\ reqs'[s].pc = "text"
           /\ DOMAIN requestCounts' = DOMAIN requestCounts \cup {reqs'[s].ip}
           /\ requestCounts'[reqs'[s].ip].count = CountAfterAllowed(reqs'[s].ip)
           /\ \A id \in DOMAIN requestCounts \ {reqs'[s].ip} :
                 requestCounts'[id] = requestCounts[id]

\* the later steps of a request, whatever their outcome, leave the map as it
\* was: the call counted at arrival stays counted
LaterStepsKeepBudget ==
  \A s \in Slots :
    (reqs[s].pc \in {"text", "insert"} /\ reqs'[s] # reqs[s]) =>
      requestCounts' = requestCounts

\* C28: a POST rejected at the origin or API-key gate leaves the rate
\* limiter's map unchanged; every POST past those two gates is denied with
\* 429 or changes its caller's entry by exactly one allowed call, and keeps
\* that call counted when it is rejected later for its body, headers,
\* timestamp, signature, JSON, schema or a store error.
BudgetConsumedPastAccess == [][ArrivalConsumesBudget /\ LaterStepsKeepBudget]_vars

\* a request rejected for an invalid signature whose call stays counted
BudgetWitness ==
  \E s \in Slots :
    /\ IsPost(s) /\ reqs[s].pc = "done"
    /\ reqs[s].response.error = "Invalid signature"
    /\ reqs[s].rlSeq = 2
    /\ requestCounts[reqs[s].ip].count = 2

\* the step of a direct call of checkRateLimit: a denied call leaves the
\* whole map as it was, and any call leaves the entries of the other
\* identifiers as they were
CallLeavesOthers ==
  (fcall.op = "none" /\ fcall'.op = "checkRateLimit") =>
    /\ ~fcall'.result => requestCounts' = requestCounts
    /\ \A id \in DOMAIN requestCounts \ {fcall'.identifier} :
          id \in DOMAIN requestCounts' /\ requestCounts'[id] = requestCounts[id]
    /\ DOMAIN requestCounts' \subseteq DOMAIN requestCounts \cup {fcall'.identifier}

\* C29: a denied call of checkRateLimit changes nothing, the denied
\* identifier's count and resetAt included, and a call for one identifier,
\* allowed or denied, leaves the entry of every other identifier unchanged.
DeniedCallChangesNothing == [][CallLeavesOthers]_vars

\* a call denied later than the instant the window was opened, while another
\* identifier has an entry
DeniedCallWitness ==
  /\ fcall.op = "checkRateLimit" /\ ~fcall.result
  /\ fcall.at > fcall.opened
  /\ requestCounts[fcall.identifier] = fcall.before
  /\ Cardinality(DOMAIN requestCounts) = 2

\* the timestamp header of the request was fresh when the handler checked it
FreshWhenRead(r) ==
  /\ ~parseInt(r.timestamp).nan
  /\ Abs(r.readAt - parseInt(r.timestamp).val) < fiveMinutes

\* C30: the signature covers the body and not the timestamp header: a
\* request carrying the body and the signature of a stored lead gets the same
\* result at the signature gate whatever its timestamp header, so with a
\* timestamp that is fresh when it is sent it passes every gate and causes
\* another insert, also after the first request's 5 minutes are over;
\* without a fresh timestamp it is answered 401.
ReplayWithFreshTimestamp ==
  \A s \in Slots :
    \A i \in 1..Len(leads) :
      (/\ IsPost(s) /\ reqs[s].timestamp # Unread
       /\ reqs[s].bodyText = leads[i].from.bodyText
       /\ reqs[s].signature = leads[i].from.signature) =>
        /\ FreshWhenRead(reqs[s]) =>
              /\ PassedAll(reqs[s])
              /\ reqs[s].inserts = 1
              /\ reqs[s].leadDB.name = leads[i].row.name
        /\ ~FreshWhenRead(reqs[s]) =>
              /\ reqs[s].response.status = 401
              /\ reqs[s].response.error \in {"Missing security headers", "Request expired"}
              /\ reqs[s].inserts = 0

\* the body and signature of a lead stored 6 minutes ago, sent again with a
\* timestamp of now and stored a second time
ReplayWitness ==
  \E s \in Slots :
    /\ IsPost(s) /\ reqs[s].pc = "done" /\ Len(leads) = 2
    /\ leads[2].row = reqs[s].leadDB /\ reqs[s].response.status = 201
    /\ leads[2].from.bodyText = leads[1].from.bodyText
    /\ leads[2].from.signature = leads[1].from.signature
    /\ leads[2].row.form_timestamp # leads[1].row.form_timestamp
    /\ leads[2].row.received_at - leads[1].row.received_at >= 360000
    /\ ~(Abs(leads[2].row.received_at - leads[1].row.form_timestamp) < fiveMinutes)

====
